---- MODULE Spec2Model ----
(***************************************************************************)
(* Michael & Scott MPMC queue (mpmcq::LockFreeQueue) with its pluggable    *)
(* reclaimers: hazard pointers, epoch based reclamation, no reclamation.   *)
(* One action is one access to shared memory; thread-local computation is  *)
(* folded into the access that follows it.  Memory is sequentially         *)
(* consistent.                                                             *)
(***************************************************************************)
EXTENDS Integers, Sequences, FiniteSets, TLC

\* ------------------------------------------------------------------ bounds
Producers == {"p1", "p2"}
Consumers == {"c1", "c2"}
Threads == Producers \cup Consumers

\* enqueue calls a producer may make
MaxEnq == 2
\* close() calls over the whole run
MaxClose == 2
\* quiescent() calls over the whole run
MaxQuiescent == 1
\* The retirement thresholds of the reclaimers, scaled down from 128 (HP)
\* and 512 (EBR) so that a threshold-triggered scan happens within the bounds.
HP_RETIRE_THRESHOLD == 1
EBR_RETIRE_THRESHOLD == 0

\* ------------------------------------------------------- program constants
HP_COUNT_PER_THREAD == 2

NULL == 0
NoVal == <<>>
\* No local_epoch was read: the thread's in_critical was read as false.
NoEpoch == -1
\* value of list_mtx_ when no thread holds it
Unlocked == "unlocked"
NAddr == 1 + Cardinality(Producers) * MaxEnq
Addrs == 1..NAddr
Slots == 0..(HP_COUNT_PER_THREAD - 1)

\* An HPRecType is named after the thread whose acquire_record() created it;
\* NoRec is the null record pointer.
NoRec == "norec"

VARIABLES
    reclaimer,      \* the Reclaimer template argument of the queue
    active,         \* the threads that run in this workload
    quota,          \* the number of enqueue calls each producer makes
    serial,         \* the calls of this workload are made one after the other
    halted,         \* the thread that may stop for good at any point, or "none"
    exits,          \* the threads whose thread function may return
    harness,        \* the revision of the consumer loop: "current" or "first"
    mq_queue_, mq_closed_,  \* MutexQueue::queue_, closed_ of the baseline queue
                    \* that a serial workload drives with the same calls
    mq_ok, mq_out,  \* what the baseline's call returned to each thread, and
                    \* the out variable the thread passes to the baseline
    out_before,     \* history: the caller's out when its running try_dequeue began
    copied,         \* history: the running try_dequeue has executed line 737
    my_rec,         \* ThreadContext::my_rec of each thread's HP context
    curr_rec, old_head,     \* locals of a running acquire_record()
    local_pool_ptr, \* NodePool::local_pool_ptr of each thread is not null
    local_pool,     \* NodePool::local_pool.vec of each thread
    global_pool,    \* NodePool::global_pool
    scan_seen,      \* history: what the scan_and_retire() a thread is running
                    \* has read so far: <<context, in_critical, local_epoch>>
    head_, tail_, closed_,
    next, value,    \* Node::next, Node::value by address
    mem,            \* "unused" | "live" | "freed" by address
    pc,             \* position of every thread
    nseq,           \* number of enqueue calls a producer has made
    new_node, curr_tail, tail_next, curr_head, head_next, out,
    hp, is_acquired, rec_list, retire_list, hazards, scan_pos,
    global_epoch_, local_epoch, in_critical, retire_lists, list_mtx_,
    thread_registry_, snapshot_epoch, epoch_tmp,
    retire_epoch,   \* history: the epoch retire_node() read when it took the node
    linked,         \* history: values in the order of the successful next CAS
    dequeued,       \* history: <<consumer, value>> in the order of the successful head CAS
    nclose,         \* number of close() calls made
    nquiescent,     \* number of quiescent() calls made
    seen_closed,    \* some is_closed() call has returned true
    ret,            \* outcome of a producer's current or last enqueue:
                    \* "none" until it is decided, then "true" or "false"
    began,          \* the close() calls that had returned when the producer's
                    \* current or last enqueue began
    dropped,        \* the values whose enqueue returned false
    cstage,         \* consumer: 1 after is_closed() returned true, 2 (stops) when
                    \* the try_dequeue after that returned false, else 0; in the
                    \* first revision of the harness 3 after a try_dequeue
                    \* returned false, 4 (stops) when the is_closed() after
                    \* that returned true
    at_close,       \* what the last close() found, see close
    reused,         \* operator new has handed out an address that was freed before
    uaf             \* a freed node has been dereferenced

queue_vars == <<head_, tail_, closed_, next, value, mem>>
local_vars == <<pc, nseq, new_node, curr_tail, tail_next, curr_head, head_next, out>>
hp_vars == <<hp, is_acquired, rec_list, retire_list, hazards, scan_pos>>
ebr_vars == <<global_epoch_, local_epoch, in_critical, retire_lists, list_mtx_,
              thread_registry_, snapshot_epoch, epoch_tmp, retire_epoch>>
mq_vars == <<mq_queue_, mq_closed_, mq_ok, mq_out>>
pool_vars == <<local_pool_ptr, local_pool, global_pool>>
rec_vars == <<my_rec, curr_rec, old_head>>
hist_vars == <<linked, dequeued, nclose, nquiescent, seen_closed, uaf, reused>>
ghost_vars == <<ret, began, dropped, cstage, at_close>>
vars == <<reclaimer, active, quota, serial, halted, exits, harness, rec_vars, pool_vars, mq_vars, scan_seen, out_before, copied,
          queue_vars, local_vars, hp_vars, ebr_vars, hist_vars, ghost_vars>>

\* ----------------------------------------------------------------- helpers
Range(s) == {s[i] : i \in 1..Len(s)}

Min(S) == CHOOSE x \in S : \A y \in S : x <= y

\* Faulty variant: the pool hands out any node, whoever still holds it.
AllocChoices_any == Addrs

\* NodePool, lines 446-449: refill batch and high-water mark of a local cache.
POOL_BATCH == 32
POOL_HIGH_WATER == 64

\* Node a sits in a thread's local cache or in the global pool.
Pooled(a) ==
    \/ a \in Range(global_pool)
    \/ \E t \in Threads : a \in Range(local_pool[t])

\* Addresses ::operator new may return: any address ::operator delete got
\* back, or a never used one (never used addresses are interchangeable, the
\* lowest stands for all).
AllocChoices ==
    LET unused == {a \in Addrs : mem[a] = "unused"}
    IN  {a \in Addrs : mem[a] = "freed" /\ ~Pooled(a)} \cup (IF unused = {} THEN {} ELSE {Min(unused)})

\* NodePool::allocate(), lines 485-526, run by thread t: the node it returns
\* and the two free lists afterwards. Touching local_pool constructs the
\* thread's LocalBuffer; an empty cache is refilled with up to POOL_BATCH nodes
\* taken from the back of the global pool; without any pooled node the
\* request goes to ::operator new.
Refill(lp, gp) ==
    LET k == IF Len(gp) < POOL_BATCH THEN Len(gp) ELSE POOL_BATCH
    IN  <<lp \o [i \in 1..k |-> gp[Len(gp) + 1 - i]], SubSeq(gp, 1, Len(gp) - k)>>

allocate(t) ==
    LET r  == IF local_pool[t] = <<>> THEN Refill(local_pool[t], global_pool)
              ELSE <<local_pool[t], global_pool>>
    IN  IF r[1] = <<>>
        THEN {<<a, r[1], r[2]>> : a \in AllocChoices}
        ELSE {<<r[1][Len(r[1])], SubSeq(r[1], 1, Len(r[1]) - 1), r[2]>>}

\* NodePool::deallocate(), lines 529-556, called once per node of the sequence
\* s: with a live LocalBuffer the node is pushed onto the thread's cache, after
\* POOL_BATCH nodes have been moved to the global pool when the cache holds
\* more than POOL_HIGH_WATER; with local_pool_ptr null the node goes to
\* ::operator delete and no list changes.
RECURSIVE PoolPush(_, _, _)
PoolPush(lp, gp, s) ==
    IF s = <<>> THEN <<lp, gp>>
    ELSE IF Len(lp) > POOL_HIGH_WATER
         THEN LET moved == [i \in 1..POOL_BATCH |-> lp[Len(lp) + 1 - i]]
              IN  PoolPush(Append(SubSeq(lp, 1, Len(lp) - POOL_BATCH), Head(s)),
                           gp \o moved, Tail(s))
         ELSE PoolPush(Append(lp, Head(s)), gp, Tail(s))

deallocate(t, s) ==
    /\ mem' = [a \in Addrs |-> IF a \in Range(s) THEN "freed" ELSE mem[a]]
    /\ IF local_pool_ptr[t]
       THEN LET r == PoolPush(local_pool[t], global_pool, s)
            IN  /\ local_pool' = [local_pool EXCEPT ![t] = r[1]]
                /\ global_pool' = r[2]
       ELSE UNCHANGED <<local_pool, global_pool>>
    /\ UNCHANGED local_pool_ptr

\* Thread t is at one of the program points in ls. Reading a freed node is
\* undefined behaviour: whatever the build does next, the execution is already
\* wrong, so no thread takes a step after it.
At(t, ls) ==
    /\ ~uaf
    /\ pc[t] \in ls
    /\ serial => \A u \in Threads \ {t} : pc[u] = "idle"

\* Where a call goes when it returns: the token destructor of EBR runs exit_critical.
Leave == IF reclaimer = "EBR" THEN "exit" ELSE "idle"

\* A dereference of address a is undefined when a was given to its deleter
\* (use after free), was never allocated, or is the null pointer.
Deref(a) == uaf' = (uaf \/ a = NULL \/ mem[a] # "live")

\* The values in the queue, oldest first: the payloads of the nodes after a.
RECURSIVE ItemsFrom(_, _)
ItemsFrom(a, fuel) ==
    IF fuel = 0 \/ next[a] = NULL THEN <<>>
    ELSE <<value[next[a]]>> \o ItemsFrom(next[a], fuel - 1)

Items == ItemsFrom(head_, NAddr)

\* at_close before any close() call
NotClosed == [items |-> <<>>, ndeq |-> 0, quiet |-> FALSE, alldone |-> FALSE]

TidOrder == <<"p1", "p2", "c1", "c2">>

\* The workloads: the reclaimer, the threads that run, the enqueue calls of
\* each producer, and how many of them p1 has made alone, one after the other,
\* before the other threads start. One workload is chosen at construction;
\* test_linearization runs the same shapes with more threads and items.
W(r, a, q1, q2, d) ==
    [reclaimer |-> r, active |-> a, quota |-> [p1 |-> q1, p2 |-> q2], done |-> d,
     serial |-> FALSE, exits |-> {}, harness |-> "current"]

\* A workload whose calls are made one after the other, as the single thread
\* of test_shutdown_semantics makes them.
SW(r, a, q1, q2, d) == [W(r, a, q1, q2, d) EXCEPT !.serial = TRUE]

\* A workload in which the thread function of the threads x returns while the
\* other threads are still running.
XW(r, a, q1, q2, d, x) == [W(r, a, q1, q2, d) EXCEPT !.exits = x]

\* A workload run by the first revision of test_linearization, whose consumer
\* loop ends when try_dequeue returned false and the is_closed() after it true.
FW(r, a, q1, q2, d) == [W(r, a, q1, q2, d) EXCEPT !.harness = "first"]

Workloads ==
    { SW("Leak", {"p1", "c1"}, MaxEnq, 0, 0),
      SW("HP",   {"p1", "c1"}, MaxEnq, 0, 0),
      SW("EBR",  {"p1", "c1"}, MaxEnq, 0, 0),
      W("Leak", {"p1", "c1", "c2"}, 1, 0, 1),
      W("Leak", {"p1", "p2", "c1"}, 1, 1, 0),
      W("HP",   {"p1", "c1"}, MaxEnq, 0, 0),
      W("HP",   {"p1", "p2"}, 1, 1, 0),
      W("EBR",  {"p1", "c1"}, 1, 0, 0),
      W("EBR",  {"p1", "p2"}, 1, 1, 0),
      W("Unsafe", {"p1", "c1"}, 1, 0, 0),
      XW("HP",  {"p1", "c1"}, 1, 0, 0, {"c1"}),
      XW("EBR", {"c1", "c2"}, 1, 0, 1, {"c1"}),
      FW("Leak", {"p1", "c1"}, MaxEnq, 0, 0) }

\* The workloads of the queue instantiated with hazard_pointers.
HpWorkloads ==
    { SW("HP",   {"p1", "c1"}, MaxEnq, 0, 0),
      W("HP",   {"c1", "c2"}, MaxEnq, 0, MaxEnq),
      W("HP",   {"p1", "c1"}, MaxEnq, 0, 0),
      W("HP",   {"p1", "p2", "c1"}, 1, 1, 0),
      XW("HP",  {"p1", "c1"}, 1, 0, 0, {"c1"}) }

\* The workloads of the queue instantiated with epoch_based_reclamation.
EbrWorkloads ==
    { SW("EBR",  {"p1", "c1"}, MaxEnq, 0, 0),
      W("EBR",  {"c1", "c2"}, 2, 0, 2),
      W("EBR",  {"p1", "c1"}, 2, 0, 0),
      W("EBR",  {"p1", "p2"}, 1, 1, 0),
      XW("EBR", {"c1", "c2"}, 1, 0, 1, {"c1"}) }

\* The workload of the ABA demonstration: UnsafeDirectReclamation, one
\* producer and two consumers.
AbaWorkloads ==
    { W("Unsafe", {"p1", "c1", "c2"}, MaxEnq, 0, 1) }

\* The workloads of the drain protocol of test_linearization: the producers
\* enqueue, close() follows their last enqueue and the consumers dequeue until
\* the queue is closed and empty.
DrainWorkloads ==
    { W("Leak", {"p1", "c1", "c2"}, 2, 0, 1),
      W("Leak", {"p1", "p2", "c1"}, 1, 1, 0),
      W("HP",   {"p1", "c1"}, MaxEnq, 0, 0),
      W("EBR",  {"p1", "c1"}, 1, 0, 0) }

\* Faulty variant: the constructor leaves the queue closed.
closed_init_true == TRUE

\* line 591: closed_.store(false) in the constructor
closed_init == FALSE

\* ------------------------------------------------------------------- Init
\* LockFreeQueue(): one dummy node, head and tail point at it, not closed.
\* Every active thread has constructed its reclaimer context; p1 has
\* completed w.done enqueue calls (nodes 2 .. w.done + 1, linked in order).
InitWith(w, h) ==
    /\ reclaimer = w.reclaimer
    /\ active = w.active
    /\ quota = w.quota
    /\ serial = w.serial
    /\ halted = h
    /\ exits = w.exits
    /\ harness = w.harness
    /\ head_ = 1
    /\ tail_ = 1 + w.done
    /\ closed_ = closed_init
    /\ next = [a \in Addrs |-> IF a <= w.done THEN a + 1 ELSE NULL]
    /\ value = [a \in Addrs |-> IF a \in 2..(w.done + 1) THEN <<"p1", a - 2>> ELSE NoVal]
    /\ mem = [a \in Addrs |-> IF a <= 1 + w.done THEN "live" ELSE "unused"]
    /\ nseq = [t \in Producers |-> IF t = "p1" THEN w.done ELSE 0]
    /\ linked = [i \in 1..w.done |-> <<"p1", i - 1>>]
    /\ rec_list = IF w.reclaimer = "HP" THEN SelectSeq(TidOrder, LAMBDA t : t \in w.active) ELSE <<>>
    /\ thread_registry_ = IF w.reclaimer = "EBR" THEN SelectSeq(TidOrder, LAMBDA t : t \in w.active) ELSE <<>>
    /\ is_acquired = [t \in Threads |-> w.reclaimer = "HP" /\ t \in w.active]
    /\ pc = [t \in Threads |-> "idle"]
    /\ new_node = [t \in Threads |-> NULL]
    /\ curr_tail = [t \in Threads |-> NULL]
    /\ tail_next = [t \in Threads |-> NULL]
    /\ curr_head = [t \in Threads |-> NULL]
    /\ head_next = [t \in Threads |-> NULL]
    /\ out = [t \in Threads |-> NoVal]
    /\ hp = [t \in Threads |-> [i \in Slots |-> NULL]]
    /\ retire_list = [t \in Threads |-> <<>>]
    /\ hazards = [t \in Threads |-> {}]
    /\ scan_pos = [t \in Threads |-> 0]
    /\ my_rec = [t \in Threads |-> IF w.reclaimer = "HP" /\ t \in w.active THEN t ELSE NoRec]
    /\ curr_rec = [t \in Threads |-> NoRec]
    /\ old_head = [t \in Threads |-> NoRec]
    /\ scan_seen = [t \in Threads |-> <<>>]
    /\ local_pool_ptr = [t \in Threads |-> t = "p1" /\ w.done > 0]
    /\ local_pool = [t \in Threads |-> <<>>]
    /\ global_pool = <<>>
    /\ out_before = [t \in Threads |-> NoVal]
    /\ mq_queue_ = <<>>
    /\ mq_closed_ = FALSE
    /\ mq_ok = [t \in Threads |-> FALSE]
    /\ mq_out = [t \in Threads |-> NoVal]
    /\ copied = [t \in Threads |-> FALSE]
    /\ global_epoch_ = 0
    /\ local_epoch = [t \in Threads |-> 0]
    /\ in_critical = [t \in Threads |-> FALSE]
    /\ retire_lists = [t \in Threads |-> [i \in 0..2 |-> <<>>]]
    /\ list_mtx_ = Unlocked
    /\ snapshot_epoch = [t \in Threads |-> 0]
    /\ epoch_tmp = [t \in Threads |-> 0]
    /\ retire_epoch = [a \in Addrs |-> 0]
    /\ dequeued = <<>>
    /\ nclose = 0
    /\ nquiescent = 0
    /\ seen_closed = FALSE
    /\ uaf = FALSE
    /\ reused = FALSE
    /\ ret = [t \in Producers |-> IF t = "p1" /\ w.done > 0 THEN "true" ELSE "none"]
    /\ began = [t \in Producers |-> 0]
    /\ dropped = {}
    /\ cstage = [t \in Consumers |-> 0]
    /\ at_close = NotClosed

Init == \E w \in Workloads : InitWith(w, "none")

HpInit == \E w \in HpWorkloads : InitWith(w, "none")

EbrInit == \E w \in EbrWorkloads : InitWith(w, "none")

AbaInit == \E w \in AbaWorkloads : InitWith(w, "none")

DrainInit == \E w \in DrainWorkloads : InitWith(w, "none")

\* ------------------------------------------------- EBR critical sections
\* enter_critical(), second store: local_epoch = the epoch loaded on entry
enter_store_epoch(t) ==
    /\ At(t, {"e_enter2", "d_enter2"})
    /\ local_epoch' = [local_epoch EXCEPT ![t] = epoch_tmp[t]]
    /\ epoch_tmp' = [epoch_tmp EXCEPT ![t] = 0]
    /\ pc' = [pc EXCEPT ![t] = IF pc[t] = "e_enter2" THEN "e_enter3" ELSE "d_enter3"]
    /\ UNCHANGED <<reclaimer, retire_epoch, active, quota, serial, halted, exits, harness, rec_vars, pool_vars, mq_vars, scan_seen, out_before, copied, ghost_vars, queue_vars, nseq, new_node, curr_tail, tail_next,
                   curr_head, head_next, out, hp_vars, global_epoch_, in_critical,
                   retire_lists, list_mtx_, thread_registry_, snapshot_epoch,
                   hist_vars>>

\* enter_critical(), third store: in_critical = true
enter_store_flag(t) ==
    /\ At(t, {"e_enter3", "d_enter3"})
    /\ in_critical' = [in_critical EXCEPT ![t] = TRUE]
    /\ pc' = [pc EXCEPT ![t] = IF pc[t] = "e_enter3" THEN "e_closed" ELSE "d_head"]
    /\ UNCHANGED <<reclaimer, retire_epoch, active, quota, serial, halted, exits, harness, rec_vars, pool_vars, mq_vars, scan_seen, out_before, copied, ghost_vars, queue_vars, nseq, new_node, curr_tail, tail_next,
                   curr_head, head_next, out, hp_vars, global_epoch_, local_epoch,
                   retire_lists, list_mtx_, thread_registry_, snapshot_epoch,
                   epoch_tmp, hist_vars>>

\* token::~token(): exit_critical() when enqueue or try_dequeue returns
exit_critical(t) ==
    /\ At(t, {"exit"})
    /\ in_critical' = [in_critical EXCEPT ![t] = FALSE]
    /\ pc' = [pc EXCEPT ![t] = "idle"]
    /\ UNCHANGED <<reclaimer, retire_epoch, active, quota, serial, halted, exits, harness, rec_vars, pool_vars, mq_vars, scan_seen, out_before, copied, ghost_vars, queue_vars, nseq, new_node, curr_tail, tail_next,
                   curr_head, head_next, out, hp_vars, global_epoch_, local_epoch,
                   retire_lists, list_mtx_, thread_registry_, snapshot_epoch,
                   epoch_tmp, hist_vars>>

\* -------------------------------------------------------------- MutexQueue
\* mutex_queue.hpp. A serial workload makes every call on the baseline queue
\* too, at the moment it makes the call on the LockFreeQueue; the calls do not
\* overlap, so mutex_ is free at every call and is not modelled.

\* MutexQueue::enqueue(v), lines 22-34, called by thread t
mq_enqueue(t, v) ==
    IF ~serial THEN UNCHANGED mq_vars
    ELSE /\ mq_ok' = [mq_ok EXCEPT ![t] = ~mq_closed_]
         /\ mq_queue_' = IF mq_closed_ THEN mq_queue_ ELSE Append(mq_queue_, v)
         /\ UNCHANGED <<mq_closed_, mq_out>>

\* MutexQueue::try_dequeue(out), lines 36-44, called by thread t
mq_try_dequeue(t) ==
    IF ~serial THEN UNCHANGED mq_vars
    ELSE /\ mq_ok' = [mq_ok EXCEPT ![t] = mq_queue_ # <<>>]
         /\ mq_out' = [mq_out EXCEPT ![t] = IF mq_queue_ = <<>> THEN @ ELSE Head(mq_queue_)]
         /\ mq_queue_' = IF mq_queue_ = <<>> THEN mq_queue_ ELSE Tail(mq_queue_)
         /\ UNCHANGED mq_closed_

\* MutexQueue::close(), lines 46-50
mq_close ==
    IF ~serial THEN UNCHANGED mq_vars
    ELSE /\ mq_closed_' = TRUE
         /\ UNCHANGED <<mq_queue_, mq_ok, mq_out>>

\* MutexQueue::is_closed(), lines 52-55
mq_is_closed == mq_closed_

\* ----------------------------------------------------------------- enqueue
\* Faulty variant: is_closed() never sees the flag.
closed_load_never == FALSE

\* Faulty variant: is_closed() answers true whatever the flag holds.
closed_load_always == TRUE

\* lines 761-764, is_closed(): what closed_.load(acquire) reads
closed_load == closed_

\* Where enqueue goes after its first is_closed() (line 608).
enqueue_entry_check == IF closed_load THEN Leave ELSE "e_new"

\* enqueue(v) is called: Reclaimer::enter(), then (HP, Leak) the first is_closed()
enqueue_call(t) ==
    /\ t \in Producers \cap active
    /\ At(t, {"idle"})
    /\ mq_enqueue(t, <<t, nseq[t]>>)
    /\ nseq[t] < quota[t]
    /\ nseq' = [nseq EXCEPT ![t] = @ + 1]
    /\ began' = [began EXCEPT ![t] = nclose]
    /\ IF reclaimer = "EBR"
         THEN /\ epoch_tmp' = [epoch_tmp EXCEPT ![t] = global_epoch_]
              /\ pc' = [pc EXCEPT ![t] = "e_enter2"]
              /\ ret' = [ret EXCEPT ![t] = "none"]
              /\ UNCHANGED <<seen_closed, dropped>>
         ELSE /\ pc' = [pc EXCEPT ![t] = enqueue_entry_check]
              /\ seen_closed' = (seen_closed \/ closed_load)
              /\ ret' = [ret EXCEPT ![t] = IF closed_load THEN "false" ELSE "none"]
              /\ dropped' = IF closed_load THEN dropped \cup {<<t, nseq[t]>>} ELSE dropped
              /\ UNCHANGED epoch_tmp
    /\ UNCHANGED <<reclaimer, retire_epoch, reused, active, quota, serial, halted, exits, harness, rec_vars, pool_vars, scan_seen, out_before, copied, cstage, at_close, queue_vars, new_node, curr_tail, tail_next,
                   curr_head, head_next, out, hp_vars, global_epoch_, local_epoch,
                   in_critical, retire_lists, list_mtx_, thread_registry_,
                   snapshot_epoch, linked, dequeued, nclose, nquiescent, uaf>>

\* line 608 under EBR, after enter_critical()
enqueue_closed(t) ==
    /\ At(t, {"e_closed"})
    /\ pc' = [pc EXCEPT ![t] = enqueue_entry_check]
    /\ seen_closed' = (seen_closed \/ closed_load)
    /\ ret' = [ret EXCEPT ![t] = IF closed_load THEN "false" ELSE "none"]
    /\ dropped' = IF closed_load THEN dropped \cup {<<t, nseq[t] - 1>>} ELSE dropped
    /\ UNCHANGED <<reclaimer, reused, active, quota, serial, halted, exits, harness, rec_vars, pool_vars, mq_vars, scan_seen, out_before, copied, began, cstage, at_close, queue_vars, nseq, new_node, curr_tail, tail_next,
                   curr_head, head_next, out, hp_vars, ebr_vars,
                   linked, dequeued, nclose, nquiescent, uaf>>

\* line 609: new Node(v), v = (producer, sequence number)
enqueue_new(t) ==
    /\ At(t, {"e_new"})
    /\ \E r \in allocate(t) :
         LET a == r[1]
         IN  /\ mem' = [mem EXCEPT ![a] = "live"]
             /\ next' = [next EXCEPT ![a] = NULL]
             /\ value' = [value EXCEPT ![a] = <<t, nseq[t] - 1>>]
             /\ new_node' = [new_node EXCEPT ![t] = a]
             /\ reused' = (reused \/ mem[a] = "freed")
             /\ local_pool' = [local_pool EXCEPT ![t] = r[2]]
             /\ global_pool' = r[3]
    /\ local_pool_ptr' = [local_pool_ptr EXCEPT ![t] = TRUE]
    /\ pc' = [pc EXCEPT ![t] = "e_tail"]
    /\ UNCHANGED <<reclaimer, active, quota, serial, halted, exits, harness, rec_vars, mq_vars, scan_seen, out_before, copied, ghost_vars, head_, tail_, closed_, nseq, curr_tail, tail_next,
                   curr_head, head_next, out, hp_vars, ebr_vars,
                   linked, dequeued, nclose, nquiescent, seen_closed, uaf>>

\* line 614: curr_tail = tail_.load()
enqueue_load_tail(t) ==
    /\ At(t, {"e_tail"})
    /\ curr_tail' = [curr_tail EXCEPT ![t] = tail_]
    /\ pc' = [pc EXCEPT ![t] = IF reclaimer = "HP" THEN "e_protect" ELSE "e_validate"]
    /\ UNCHANGED <<reclaimer, active, quota, serial, halted, exits, harness, rec_vars, pool_vars, mq_vars, scan_seen, out_before, copied, ghost_vars, queue_vars, nseq, new_node, tail_next,
                   curr_head, head_next, out, hp_vars, ebr_vars, hist_vars>>

\* line 618: Reclaimer::protect_at(0, curr_tail)
enqueue_protect(t) ==
    /\ At(t, {"e_protect"})
    /\ hp' = [hp EXCEPT ![t][0] = curr_tail[t]]
    /\ pc' = [pc EXCEPT ![t] = "e_validate"]
    /\ UNCHANGED <<reclaimer, active, quota, serial, halted, exits, harness, rec_vars, pool_vars, mq_vars, scan_seen, out_before, copied, ghost_vars, queue_vars, nseq, new_node, curr_tail, tail_next,
                   curr_head, head_next, out, is_acquired, rec_list, retire_list,
                   hazards, scan_pos, ebr_vars, hist_vars>>

\* line 621: retry when tail moved while the hazard was being published
enqueue_validate(t) ==
    /\ At(t, {"e_validate"})
    /\ pc' = [pc EXCEPT ![t] = IF curr_tail[t] # tail_ THEN "e_tail" ELSE "e_next"]
    /\ UNCHANGED <<reclaimer, active, quota, serial, halted, exits, harness, rec_vars, pool_vars, mq_vars, scan_seen, out_before, copied, ghost_vars, queue_vars, nseq, new_node, curr_tail, tail_next,
                   curr_head, head_next, out, hp_vars, ebr_vars, hist_vars>>

\* line 628: tail_next = curr_tail->next.load()
enqueue_load_next(t) ==
    /\ At(t, {"e_next"})
    /\ Deref(curr_tail[t])
    /\ tail_next' = [tail_next EXCEPT ![t] = next[curr_tail[t]]]
    /\ pc' = [pc EXCEPT ![t] = "e_closed2"]
    /\ UNCHANGED <<reclaimer, reused, active, quota, serial, halted, exits, harness, rec_vars, pool_vars, mq_vars, scan_seen, out_before, copied, ghost_vars, queue_vars, nseq, new_node, curr_tail,
                   curr_head, head_next, out, hp_vars, ebr_vars,
                   linked, dequeued, nclose, nquiescent, seen_closed>>

\* line 630: the second is_closed(), inside the loop
enqueue_closed2(t) ==
    /\ At(t, {"e_closed2"})
    /\ seen_closed' = (seen_closed \/ closed_load)
    /\ ret' = [ret EXCEPT ![t] = IF closed_load THEN "false" ELSE "none"]
    /\ dropped' = IF closed_load THEN dropped \cup {<<t, nseq[t] - 1>>} ELSE dropped
    /\ pc' = [pc EXCEPT ![t] =
                IF closed_load THEN (IF reclaimer = "HP" THEN "e_clear_f" ELSE "e_delete")
                ELSE "e_validate2"]
    /\ UNCHANGED <<reclaimer, reused, active, quota, serial, halted, exits, harness, rec_vars, pool_vars, mq_vars, scan_seen, out_before, copied, began, cstage, at_close, queue_vars, nseq, new_node, curr_tail, tail_next,
                   curr_head, head_next, out, hp_vars, ebr_vars,
                   linked, dequeued, nclose, nquiescent, uaf>>

\* line 632: protect_at(0, nullptr) before giving up
enqueue_clear_closed(t) ==
    /\ At(t, {"e_clear_f"})
    /\ hp' = [hp EXCEPT ![t][0] = NULL]
    /\ pc' = [pc EXCEPT ![t] = "e_delete"]
    /\ UNCHANGED <<reclaimer, active, quota, serial, halted, exits, harness, rec_vars, pool_vars, mq_vars, scan_seen, out_before, copied, ghost_vars, queue_vars, nseq, new_node, curr_tail, tail_next,
                   curr_head, head_next, out, is_acquired, rec_list, retire_list,
                   hazards, scan_pos, ebr_vars, hist_vars>>

\* lines 633-634: delete new_node; return false
enqueue_delete(t) ==
    /\ At(t, {"e_delete"})
    /\ deallocate(t, <<new_node[t]>>)
    /\ new_node' = [new_node EXCEPT ![t] = NULL]
    /\ curr_tail' = [curr_tail EXCEPT ![t] = NULL]
    /\ tail_next' = [tail_next EXCEPT ![t] = NULL]
    /\ pc' = [pc EXCEPT ![t] = Leave]
    /\ UNCHANGED <<reclaimer, active, quota, serial, halted, exits, harness, rec_vars, mq_vars, scan_seen, out_before, copied, ghost_vars, head_, tail_, closed_, next, value, nseq,
                   curr_head, head_next, out, hp_vars, ebr_vars, hist_vars>>

\* line 637 and the test of tail_next at line 639
enqueue_validate2(t) ==
    /\ At(t, {"e_validate2"})
    /\ pc' = [pc EXCEPT ![t] =
                IF curr_tail[t] = tail_
                THEN (IF tail_next[t] = NULL THEN "e_cas_next" ELSE "e_help")
                ELSE "e_tail"]
    /\ UNCHANGED <<reclaimer, active, quota, serial, halted, exits, harness, rec_vars, pool_vars, mq_vars, scan_seen, out_before, copied, ghost_vars, queue_vars, nseq, new_node, curr_tail, tail_next,
                   curr_head, head_next, out, hp_vars, ebr_vars, hist_vars>>

\* Faulty variant: the link is stored without comparing it with nullptr.
link_cas_always(t) == TRUE

\* line 641: compare_exchange_weak(null_node, new_node) on curr_tail->next
\* can succeed only when the link still holds the expected nullptr
link_cas_expected(t) == next[curr_tail[t]] = NULL

\* line 641: curr_tail->next.compare_exchange_weak(nullptr, new_node), success
enqueue_link(t) ==
    /\ At(t, {"e_cas_next"})
    /\ Deref(curr_tail[t])
    /\ link_cas_expected(t)
    /\ next' = [next EXCEPT ![curr_tail[t]] = new_node[t]]
    /\ ret' = [ret EXCEPT ![t] = "true"]
    /\ linked' = Append(linked, value[new_node[t]])
    /\ pc' = [pc EXCEPT ![t] = "e_cas_tail"]
    /\ UNCHANGED <<reclaimer, reused, active, quota, serial, halted, exits, harness, rec_vars, pool_vars, mq_vars, scan_seen, out_before, copied, began, dropped, cstage, at_close, head_, tail_, closed_, value, mem, nseq, new_node,
                   curr_tail, tail_next, curr_head, head_next, out, hp_vars,
                   ebr_vars, dequeued, nclose, nquiescent, seen_closed>>

\* line 641: the CAS fails (another node was linked, or spuriously); line 667, retry
enqueue_link_fail(t) ==
    /\ At(t, {"e_cas_next"})
    /\ Deref(curr_tail[t])
    /\ pc' = [pc EXCEPT ![t] = "e_tail"]
    /\ UNCHANGED <<reclaimer, reused, active, quota, serial, halted, exits, harness, rec_vars, pool_vars, mq_vars, scan_seen, out_before, copied, ghost_vars, queue_vars, nseq, new_node, curr_tail, tail_next,
                   curr_head, head_next, out, hp_vars, ebr_vars,
                   linked, dequeued, nclose, nquiescent, seen_closed>>

\* Faulty variant: the enqueuer that finds tail lagging leaves it where it is.
help_tail_none(t) == curr_tail[t]

\* line 663: the node the helping CAS moves tail_ to
help_tail(t) == tail_next[t]

\* line 662: tail lags, help it on with a CAS, then retry
enqueue_help(t) ==
    /\ At(t, {"e_help"})
    /\ tail_' = IF tail_ = curr_tail[t] THEN help_tail(t) ELSE tail_
    /\ pc' = [pc EXCEPT ![t] = "e_tail"]
    /\ UNCHANGED <<reclaimer, active, quota, serial, halted, exits, harness, rec_vars, pool_vars, mq_vars, scan_seen, out_before, copied, ghost_vars, head_, closed_, next, value, mem, nseq, new_node,
                   curr_tail, tail_next, curr_head, head_next, out, hp_vars,
                   ebr_vars, hist_vars>>

\* line 648: tail_.compare_exchange_strong(curr_tail, new_node), result ignored
enqueue_swing_tail(t) ==
    /\ At(t, {"e_cas_tail"})
    /\ tail_' = IF tail_ = curr_tail[t] THEN new_node[t] ELSE tail_
    /\ new_node' = [new_node EXCEPT ![t] = NULL]
    /\ curr_tail' = [curr_tail EXCEPT ![t] = NULL]
    /\ tail_next' = [tail_next EXCEPT ![t] = NULL]
    /\ pc' = [pc EXCEPT ![t] = IF reclaimer = "HP" THEN "e_clear_t" ELSE Leave]
    /\ UNCHANGED <<reclaimer, active, quota, serial, halted, exits, harness, rec_vars, pool_vars, mq_vars, scan_seen, out_before, copied, ghost_vars, head_, closed_, next, value, mem, nseq,
                   curr_head, head_next, out, hp_vars, ebr_vars, hist_vars>>

\* lines 654-655: protect_at(0, nullptr); return true
enqueue_clear_done(t) ==
    /\ At(t, {"e_clear_t"})
    /\ hp' = [hp EXCEPT ![t][0] = NULL]
    /\ pc' = [pc EXCEPT ![t] = "idle"]
    /\ UNCHANGED <<reclaimer, active, quota, serial, halted, exits, harness, rec_vars, pool_vars, mq_vars, scan_seen, out_before, copied, ghost_vars, queue_vars, nseq, new_node, curr_tail, tail_next,
                   curr_head, head_next, out, is_acquired, rec_list, retire_list,
                   hazards, scan_pos, ebr_vars, hist_vars>>

enqueue(t) ==
    \/ enqueue_call(t)
    \/ enqueue_closed(t)
    \/ enqueue_new(t)
    \/ enqueue_load_tail(t)
    \/ enqueue_protect(t)
    \/ enqueue_validate(t)
    \/ enqueue_load_next(t)
    \/ enqueue_closed2(t)
    \/ enqueue_clear_closed(t)
    \/ enqueue_delete(t)
    \/ enqueue_validate2(t)
    \/ enqueue_link(t)
    \/ enqueue_link_fail(t)
    \/ enqueue_help(t)
    \/ enqueue_swing_tail(t)
    \/ enqueue_clear_done(t)

\* ------------------------------------------------------- close / is_closed
\* The thread that calls close(): the first active producer (the producers of
\* a workload with two of them are interchangeable).
Closer ==
    IF active \cap Producers = {} THEN "none"
    ELSE SelectSeq(TidOrder, LAMBDA t : t \in active \cap Producers)[1]

\* Faulty variant: close() flips the flag instead of setting it.
close_store_toggle == ~closed_

\* line 758: the value close() stores into closed_
close_store == TRUE

\* lines 756-759: closed_.store(true)
close(t) ==
    /\ t = Closer
    /\ At(t, {"idle"})
    /\ mq_close
    /\ nclose < MaxClose
    /\ closed_' = close_store
    /\ nclose' = nclose + 1
    /\ at_close' = [items |-> Items,
                    ndeq |-> Len(dequeued),
                    quiet |-> \A p \in Producers : pc[p] = "idle",
                    alldone |-> /\ dropped = {}
                                /\ \A p \in Producers \cap active :
                                      pc[p] = "idle" /\ nseq[p] = quota[p]]
    /\ UNCHANGED <<reclaimer, reused, active, quota, serial, halted, exits, harness, rec_vars, pool_vars, scan_seen, out_before, copied, ret, began, dropped, cstage, head_, tail_, next, value, mem, local_vars, hp_vars,
                   ebr_vars, linked, dequeued, nquiescent, seen_closed, uaf>>

\* ------------------------------------------------------------- try_dequeue
\* Where try_dequeue goes after loading head (protect the head under HP).
after_load_head == IF reclaimer = "HP" THEN "d_protect0" ELSE "d_validate"

\* try_dequeue(out) is called: Reclaimer::enter(), then (HP, Leak) line 678
dequeue_call(t) ==
    /\ t \in Consumers \cap active
    /\ At(t, {"idle"})
    /\ mq_try_dequeue(t)
    /\ out_before' = [out_before EXCEPT ![t] = out[t]]
    /\ copied' = [copied EXCEPT ![t] = FALSE]
    /\ cstage[t] \notin {2, 3, 4}
    /\ IF reclaimer = "EBR"
         THEN /\ epoch_tmp' = [epoch_tmp EXCEPT ![t] = global_epoch_]
              /\ pc' = [pc EXCEPT ![t] = "d_enter2"]
              /\ UNCHANGED curr_head
         ELSE /\ curr_head' = [curr_head EXCEPT ![t] = head_]
              /\ pc' = [pc EXCEPT ![t] = after_load_head]
              /\ UNCHANGED epoch_tmp
    /\ UNCHANGED <<reclaimer, retire_epoch, active, quota, serial, halted, exits, harness, rec_vars, pool_vars, scan_seen, ghost_vars, queue_vars, nseq, new_node, curr_tail, tail_next,
                   head_next, out, hp_vars, global_epoch_, local_epoch,
                   in_critical, retire_lists, list_mtx_, thread_registry_,
                   snapshot_epoch, hist_vars>>

\* line 678: curr_head = head_.load()
dequeue_load_head(t) ==
    /\ At(t, {"d_head"})
    /\ curr_head' = [curr_head EXCEPT ![t] = head_]
    /\ pc' = [pc EXCEPT ![t] = after_load_head]
    /\ UNCHANGED <<reclaimer, active, quota, serial, halted, exits, harness, rec_vars, pool_vars, mq_vars, scan_seen, out_before, copied, ghost_vars, queue_vars, nseq, new_node, curr_tail, tail_next,
                   head_next, out, hp_vars, ebr_vars, hist_vars>>

\* line 681: Reclaimer::protect_at(0, curr_head)
dequeue_protect_head(t) ==
    /\ At(t, {"d_protect0"})
    /\ hp' = [hp EXCEPT ![t][0] = curr_head[t]]
    /\ pc' = [pc EXCEPT ![t] = "d_validate"]
    /\ UNCHANGED <<reclaimer, active, quota, serial, halted, exits, harness, rec_vars, pool_vars, mq_vars, scan_seen, out_before, copied, ghost_vars, queue_vars, nseq, new_node, curr_tail, tail_next,
                   curr_head, head_next, out, is_acquired, rec_list, retire_list,
                   hazards, scan_pos, ebr_vars, hist_vars>>

\* line 689: retry when head moved while the hazard was being published
dequeue_validate(t) ==
    /\ At(t, {"d_validate"})
    /\ pc' = [pc EXCEPT ![t] = IF curr_head[t] # head_ THEN "d_head" ELSE "d_tail"]
    /\ UNCHANGED <<reclaimer, active, quota, serial, halted, exits, harness, rec_vars, pool_vars, mq_vars, scan_seen, out_before, copied, ghost_vars, queue_vars, nseq, new_node, curr_tail, tail_next,
                   curr_head, head_next, out, hp_vars, ebr_vars, hist_vars>>

\* line 695: curr_tail = tail_.load()
dequeue_load_tail(t) ==
    /\ At(t, {"d_tail"})
    /\ curr_tail' = [curr_tail EXCEPT ![t] = tail_]
    /\ pc' = [pc EXCEPT ![t] = "d_next"]
    /\ UNCHANGED <<reclaimer, active, quota, serial, halted, exits, harness, rec_vars, pool_vars, mq_vars, scan_seen, out_before, copied, ghost_vars, queue_vars, nseq, new_node, tail_next,
                   curr_head, head_next, out, hp_vars, ebr_vars, hist_vars>>

\* Faulty variant: the queue is taken for empty when head and tail were the same node.
queue_empty_by_tail(t) == curr_head[t] = curr_tail[t]

\* line 701: if (head_next == nullptr), with head_next as line 696 loads it
queue_empty(t) == next[curr_head[t]] = NULL

\* line 696: head_next = curr_head->next.load(); line 701: empty when it is null
dequeue_load_next(t) ==
    /\ At(t, {"d_next"})
    /\ IF queue_empty(t)
         THEN /\ out_before' = [out_before EXCEPT ![t] = NoVal]
              /\ copied' = [copied EXCEPT ![t] = FALSE]
         ELSE UNCHANGED <<out_before, copied>>
    /\ Deref(curr_head[t])
    /\ cstage' = [cstage EXCEPT ![t] =
                    IF ~queue_empty(t) THEN @
                    ELSE IF harness = "first" THEN 3
                    ELSE IF @ = 1 THEN 2 ELSE 0]
    /\ LET n == next[curr_head[t]] IN
         IF queue_empty(t)
         THEN /\ pc' = [pc EXCEPT ![t] = IF reclaimer = "HP" THEN "d_clear0_f" ELSE Leave]
              /\ curr_head' = [curr_head EXCEPT ![t] = NULL]
              /\ curr_tail' = [curr_tail EXCEPT ![t] = NULL]
              /\ head_next' = [head_next EXCEPT ![t] = NULL]
         ELSE /\ pc' = [pc EXCEPT ![t] = IF reclaimer = "HP" THEN "d_protect1" ELSE "d_validate2"]
              /\ head_next' = [head_next EXCEPT ![t] = n]
              /\ UNCHANGED <<curr_head, curr_tail>>
    /\ UNCHANGED <<reclaimer, reused, active, quota, serial, halted, exits, harness, rec_vars, pool_vars, mq_vars, scan_seen, ret, began, dropped, at_close, queue_vars, nseq, new_node, tail_next, out, hp_vars,
                   ebr_vars, linked, dequeued, nclose, nquiescent, seen_closed>>

\* line 703: protect_at(0, nullptr) on the empty path
dequeue_clear0_empty(t) ==
    /\ At(t, {"d_clear0_f"})
    /\ hp' = [hp EXCEPT ![t][0] = NULL]
    /\ pc' = [pc EXCEPT ![t] = "d_clear1_f"]
    /\ UNCHANGED <<reclaimer, active, quota, serial, halted, exits, harness, rec_vars, pool_vars, mq_vars, scan_seen, out_before, copied, ghost_vars, queue_vars, nseq, new_node, curr_tail, tail_next,
                   curr_head, head_next, out, is_acquired, rec_list, retire_list,
                   hazards, scan_pos, ebr_vars, hist_vars>>

\* lines 704-705: protect_at(1, nullptr); return false
dequeue_clear1_empty(t) ==
    /\ At(t, {"d_clear1_f"})
    /\ hp' = [hp EXCEPT ![t][1] = NULL]
    /\ pc' = [pc EXCEPT ![t] = "idle"]
    /\ UNCHANGED <<reclaimer, active, quota, serial, halted, exits, harness, rec_vars, pool_vars, mq_vars, scan_seen, out_before, copied, ghost_vars, queue_vars, nseq, new_node, curr_tail, tail_next,
                   curr_head, head_next, out, is_acquired, rec_list, retire_list,
                   hazards, scan_pos, ebr_vars, hist_vars>>

\* line 710: Reclaimer::protect_at(1, head_next)
dequeue_protect_next(t) ==
    /\ At(t, {"d_protect1"})
    /\ hp' = [hp EXCEPT ![t][1] = head_next[t]]
    /\ pc' = [pc EXCEPT ![t] = "d_validate2"]
    /\ UNCHANGED <<reclaimer, active, quota, serial, halted, exits, harness, rec_vars, pool_vars, mq_vars, scan_seen, out_before, copied, ghost_vars, queue_vars, nseq, new_node, curr_tail, tail_next,
                   curr_head, head_next, out, is_acquired, rec_list, retire_list,
                   hazards, scan_pos, ebr_vars, hist_vars>>

\* Faulty variant: try_dequeue never takes the tail for lagging.
tail_lags_never(t) == FALSE

\* line 721: if (curr_head == curr_tail), the tail lags on the head node
tail_lags(t) == curr_head[t] = curr_tail[t]

\* line 715: head must still be curr_head; line 721: does tail lag on head?
dequeue_validate2(t) ==
    /\ At(t, {"d_validate2"})
    /\ pc' = [pc EXCEPT ![t] =
                IF curr_head[t] # head_ THEN "d_head"
                ELSE IF tail_lags(t) THEN "d_help"
                ELSE "d_value"]
    /\ UNCHANGED <<reclaimer, active, quota, serial, halted, exits, harness, rec_vars, pool_vars, mq_vars, scan_seen, out_before, copied, ghost_vars, queue_vars, nseq, new_node, curr_tail, tail_next,
                   curr_head, head_next, out, hp_vars, ebr_vars, hist_vars>>

\* line 724: help the lagging tail on with a CAS, then retry
dequeue_help(t) ==
    /\ At(t, {"d_help"})
    /\ tail_' = IF tail_ = curr_tail[t] THEN head_next[t] ELSE tail_
    /\ pc' = [pc EXCEPT ![t] = "d_head"]
    /\ UNCHANGED <<reclaimer, active, quota, serial, halted, exits, harness, rec_vars, pool_vars, mq_vars, scan_seen, out_before, copied, ghost_vars, head_, closed_, next, value, mem, nseq, new_node,
                   curr_tail, tail_next, curr_head, head_next, out, hp_vars,
                   ebr_vars, hist_vars>>

\* Faulty variant: the payload is read from the old dummy node.
value_read_head(t) == value[curr_head[t]]

\* line 737: the payload try_dequeue copies out, head_next->value
value_read(t) == value[head_next[t]]

\* line 737: out = head_next->value
dequeue_read_value(t) ==
    /\ At(t, {"d_value"})
    /\ copied' = [copied EXCEPT ![t] = TRUE]
    /\ UNCHANGED out_before
    /\ Deref(head_next[t])
    /\ out' = [out EXCEPT ![t] = value_read(t)]
    /\ pc' = [pc EXCEPT ![t] = "d_cas"]
    /\ UNCHANGED <<reclaimer, reused, active, quota, serial, halted, exits, harness, rec_vars, pool_vars, mq_vars, scan_seen, ghost_vars, queue_vars, nseq, new_node, curr_tail, tail_next,
                   curr_head, head_next, hp_vars, ebr_vars,
                   linked, dequeued, nclose, nquiescent, seen_closed>>

\* Where try_dequeue goes after its head CAS succeeded.
after_swing_head ==
    IF reclaimer = "HP" THEN "d_clear0_t"
    ELSE IF reclaimer = "EBR" THEN "r_retire"
    ELSE IF reclaimer = "Unsafe" THEN "u_retire"
    ELSE "idle"

\* Faulty variant: head_ is stored without comparing it with curr_head.
head_cas_always(t) == TRUE

\* line 739: compare_exchange_weak(curr_head, head_next) on head_ can succeed
\* only when head_ still holds the expected curr_head
head_cas_expected(t) == head_ = curr_head[t]

\* line 739: head_.compare_exchange_weak(curr_head, head_next), success.
\* Under Leak, Reclaimer::retire does nothing and the call returns true here.
dequeue_swing_head(t) ==
    /\ At(t, {"d_cas"})
    /\ out_before' = [out_before EXCEPT ![t] = NoVal]
    /\ copied' = [copied EXCEPT ![t] = FALSE]
    /\ head_cas_expected(t)
    /\ head_' = head_next[t]
    /\ cstage' = [cstage EXCEPT ![t] = 0]
    /\ dequeued' = Append(dequeued, <<t, out[t]>>)
    /\ pc' = [pc EXCEPT ![t] = after_swing_head]
    /\ curr_tail' = [curr_tail EXCEPT ![t] = NULL]
    /\ head_next' = [head_next EXCEPT ![t] = NULL]
    /\ curr_head' = [curr_head EXCEPT ![t] = IF reclaimer = "Leak" THEN NULL ELSE @]
    /\ UNCHANGED <<reclaimer, reused, active, quota, serial, halted, exits, harness, rec_vars, pool_vars, mq_vars, scan_seen, ret, began, dropped, at_close, tail_, closed_, next, value, mem, nseq, new_node,
                   tail_next, out, hp_vars, ebr_vars, linked, nclose, nquiescent, seen_closed, uaf>>

\* line 739: the CAS fails (head moved, or spuriously); line 752, retry
dequeue_swing_head_fail(t) ==
    /\ At(t, {"d_cas"})
    /\ pc' = [pc EXCEPT ![t] = "d_head"]
    /\ UNCHANGED <<reclaimer, active, quota, serial, halted, exits, harness, rec_vars, pool_vars, mq_vars, scan_seen, out_before, copied, ghost_vars, queue_vars, nseq, new_node, curr_tail, tail_next,
                   curr_head, head_next, out, hp_vars, ebr_vars, hist_vars>>

\* line 745: protect_at(0, nullptr) after the successful CAS
dequeue_clear0_done(t) ==
    /\ At(t, {"d_clear0_t"})
    /\ hp' = [hp EXCEPT ![t][0] = NULL]
    /\ pc' = [pc EXCEPT ![t] = "d_clear1_t"]
    /\ UNCHANGED <<reclaimer, active, quota, serial, halted, exits, harness, rec_vars, pool_vars, mq_vars, scan_seen, out_before, copied, ghost_vars, queue_vars, nseq, new_node, curr_tail, tail_next,
                   curr_head, head_next, out, is_acquired, rec_list, retire_list,
                   hazards, scan_pos, ebr_vars, hist_vars>>

\* Faulty variant: slot 1 keeps the pointer it protects.
clear_next_skipped(t) == hp[t][1]

\* line 746: the pointer protect_at(1, nullptr) stores in slot 1
clear_next(t) == NULL

\* lines 746-747 under HP: protect_at(1, nullptr), then retire_node(curr_head)
\* appends to the thread's retire_list and scans when it holds
\* HP_RETIRE_THRESHOLD nodes (hazard_pointers.hpp lines 375-380).
dequeue_clear1_done(t) ==
    /\ At(t, {"d_clear1_t"})
    /\ hp' = [hp EXCEPT ![t][1] = clear_next(t)]
    /\ retire_list' = [retire_list EXCEPT ![t] = Append(@, curr_head[t])]
    /\ curr_head' = [curr_head EXCEPT ![t] = NULL]
    /\ IF Len(retire_list[t]) + 1 >= HP_RETIRE_THRESHOLD
         THEN /\ pc' = [pc EXCEPT ![t] = "hp_scan"]
              /\ scan_pos' = [scan_pos EXCEPT ![t] = 1]
         ELSE /\ pc' = [pc EXCEPT ![t] = "idle"]
              /\ UNCHANGED scan_pos
    /\ UNCHANGED <<reclaimer, active, quota, serial, halted, exits, harness, rec_vars, pool_vars, mq_vars, scan_seen, out_before, copied, ghost_vars, queue_vars, nseq, new_node, curr_tail, tail_next,
                   head_next, out, is_acquired, rec_list, hazards, ebr_vars, hist_vars>>

try_dequeue(t) ==
    \/ dequeue_call(t)
    \/ dequeue_load_head(t)
    \/ dequeue_protect_head(t)
    \/ dequeue_validate(t)
    \/ dequeue_load_tail(t)
    \/ dequeue_load_next(t)
    \/ dequeue_clear0_empty(t)
    \/ dequeue_clear1_empty(t)
    \/ dequeue_protect_next(t)
    \/ dequeue_validate2(t)
    \/ dequeue_help(t)
    \/ dequeue_read_value(t)
    \/ dequeue_swing_head(t)
    \/ dequeue_swing_head_fail(t)
    \/ dequeue_clear0_done(t)
    \/ dequeue_clear1_done(t)

\* --------------------------------------------------------- hazard pointers
\* scan_and_retire() phase 1, lines 401-417: one load of a hazard slot.
\* scan_pos counts the slots of rec_list in list order; the slots of a record
\* that is not acquired are skipped.
hp_scan_read(t) ==
    /\ At(t, {"hp_scan", "hp_scan_x"})
    /\ LET i == ((scan_pos[t] - 1) \div HP_COUNT_PER_THREAD) + 1
           k == (scan_pos[t] - 1) % HP_COUNT_PER_THREAD
           r == rec_list[i]
           p == hp[r][k]
           nxt == IF is_acquired[r] THEN scan_pos[t] + 1
                  ELSE i * HP_COUNT_PER_THREAD + 1
       IN /\ hazards' = [hazards EXCEPT ![t] =
                            IF is_acquired[r] /\ p # NULL THEN @ \cup {p} ELSE @]
          /\ IF nxt > Len(rec_list) * HP_COUNT_PER_THREAD
               THEN /\ pc' = [pc EXCEPT ![t] =
                                IF @ = "hp_scan" THEN "hp_scan_free" ELSE "hp_scan_free_x"]
                    /\ scan_pos' = [scan_pos EXCEPT ![t] = 0]
               ELSE /\ scan_pos' = [scan_pos EXCEPT ![t] = nxt]
                    /\ UNCHANGED pc
    /\ UNCHANGED <<reclaimer, active, quota, serial, halted, exits, harness, rec_vars, pool_vars, mq_vars, scan_seen, out_before, copied, ghost_vars, queue_vars, nseq, new_node, curr_tail, tail_next,
                   curr_head, head_next, out, hp, is_acquired, rec_list,
                   retire_list, ebr_vars, hist_vars>>

\* Faulty variant: the scan deletes nothing and keeps every retiree.
hp_kept_all(list, hz) == list

\* Faulty variant: the scan deletes every retiree, protected or not.
hp_kept_none(list, hz) == <<>>

\* The retirees scan_and_retire() keeps: those found among the hazards.
hp_kept(list, hz) == SelectSeq(list, LAMBDA a : a \in hz)

\* scan_and_retire() phase 3, lines 423-445: delete the retirees that are not
\* among the collected hazards, keep the others in order.
hp_scan_free(t) ==
    /\ At(t, {"hp_scan_free", "hp_scan_free_x"})
    /\ LET kept == hp_kept(retire_list[t], hazards[t])
       IN /\ deallocate(t, SelectSeq(retire_list[t], LAMBDA a : a \notin Range(kept)))
          /\ retire_list' = [retire_list EXCEPT ![t] = kept]
    /\ hazards' = [hazards EXCEPT ![t] = {}]
    /\ pc' = [pc EXCEPT ![t] = IF @ = "hp_scan_free" THEN "idle" ELSE "x_release"]
    /\ UNCHANGED <<reclaimer, active, quota, serial, halted, exits, harness, rec_vars, mq_vars, scan_seen, out_before, copied, ghost_vars, head_, tail_, closed_, next, value, nseq, new_node,
                   curr_tail, tail_next, curr_head, head_next, out, hp,
                   is_acquired, rec_list, scan_pos, ebr_vars, hist_vars>>

\* hazard_pointers.hpp lines 314-327, ~ThreadContext(): the thread function
\* has returned and the thread_local context is destroyed; one final
\* scan_and_retire() when retire_list is not empty, then release_record().
thread_exit(t) ==
    /\ t \in exits \cap active
    /\ At(t, {"idle"})
    /\ reclaimer = "HP"
    /\ IF retire_list[t] # <<>>
         THEN /\ pc' = [pc EXCEPT ![t] = "hp_scan_x"]
              /\ scan_pos' = [scan_pos EXCEPT ![t] = 1]
         ELSE /\ pc' = [pc EXCEPT ![t] = "x_release"]
              /\ UNCHANGED scan_pos
    /\ UNCHANGED <<reclaimer, active, quota, serial, halted, exits, harness, rec_vars, pool_vars, mq_vars, scan_seen, out_before, copied, ghost_vars, queue_vars, nseq, new_node, curr_tail, tail_next,
                   curr_head, head_next, out, hp, is_acquired, rec_list,
                   retire_list, hazards, ebr_vars, hist_vars>>

\* Faulty variant: release_record leaves the hazard slots as they are.
release_slots_kept(r) == hp[r]

\* lines 488-491: every slot of the record is set to nullptr
release_slots(r) == [i \in Slots |-> NULL]

\* release_record(), lines 485-494: the hazard slots are cleared and the record
\* is marked free; then the retire_list vector is destroyed with whatever
\* the final scan kept in it (no deleter runs on those nodes), lines 317-319.
release_record(t) ==
    /\ At(t, {"x_release"})
    /\ hp' = [hp EXCEPT ![my_rec[t]] = release_slots(my_rec[t])]
    /\ is_acquired' = [is_acquired EXCEPT ![my_rec[t]] = FALSE]
    /\ retire_list' = [retire_list EXCEPT ![t] = <<>>]
    /\ pc' = [pc EXCEPT ![t] = "gone"]
    /\ UNCHANGED <<reclaimer, active, quota, serial, halted, exits, harness, rec_vars, pool_vars, mq_vars, scan_seen, out_before, copied, ghost_vars, queue_vars, nseq, new_node, curr_tail, tail_next,
                   curr_head, head_next, out, rec_list, hazards, scan_pos,
                   ebr_vars, hist_vars>>

\* -------------------------------------------------- epoch based reclamation
\* Where scan_and_retire() returns to: attempt_local_cleanup() when it was
\* called from retire_node(), the caller of quiescent() otherwise.
ebr_scan_return(t) == IF curr_head[t] # NULL THEN "r_cleanup" ELSE "idle"

\* retire_node(), lines 106-123: the node goes to bucket global_epoch_ % 3;
\* a scan follows when that bucket holds more than EBR_RETIRE_THRESHOLD nodes.
ebr_retire_node(t) ==
    /\ At(t, {"r_retire"})
    /\ LET idx == global_epoch_ % 3
       IN /\ retire_lists' = [retire_lists EXCEPT ![t][idx] = Append(@, curr_head[t])]
          /\ retire_epoch' = [retire_epoch EXCEPT ![curr_head[t]] = global_epoch_]
          /\ pc' = [pc EXCEPT ![t] =
                      IF Len(retire_lists[t][idx]) + 1 > EBR_RETIRE_THRESHOLD
                      THEN "ebr_scan" ELSE "r_cleanup"]
    /\ UNCHANGED <<reclaimer, active, quota, serial, halted, exits, harness, rec_vars, pool_vars, mq_vars, scan_seen, out_before, copied, ghost_vars, queue_vars, nseq, new_node, curr_tail, tail_next,
                   curr_head, head_next, out, hp_vars, global_epoch_, local_epoch,
                   in_critical, list_mtx_, thread_registry_, snapshot_epoch,
                   epoch_tmp, hist_vars>>

\* Faulty variant: try_to_lock succeeds whoever holds the mutex.
owns_lock_always == TRUE

\* lines 145-146: lock.owns_lock() after try_to_lock, true when list_mtx_ was free
owns_lock == list_mtx_ = Unlocked

\* scan_and_retire(), lines 145-148: try_lock; on success snapshot global_epoch_
ebr_scan_lock(t) ==
    /\ At(t, {"ebr_scan"})
    /\ IF ~owns_lock
         THEN /\ pc' = [pc EXCEPT ![t] = ebr_scan_return(t)]
              /\ UNCHANGED <<list_mtx_, snapshot_epoch, scan_pos, scan_seen>>
         ELSE /\ list_mtx_' = t
              /\ snapshot_epoch' = [snapshot_epoch EXCEPT ![t] = global_epoch_]
              /\ scan_pos' = [scan_pos EXCEPT ![t] = 1]
              /\ scan_seen' = [scan_seen EXCEPT ![t] = <<>>]
              /\ pc' = [pc EXCEPT ![t] = "ebr_scan_flag"]
    /\ UNCHANGED <<reclaimer, retire_epoch, active, quota, serial, halted, exits, harness, rec_vars, pool_vars, mq_vars, out_before, copied, ghost_vars, queue_vars, nseq, new_node, curr_tail, tail_next,
                   curr_head, head_next, out, hp, is_acquired, rec_list,
                   retire_list, hazards, global_epoch_, local_epoch, in_critical,
                   retire_lists, thread_registry_, epoch_tmp, hist_vars>>

\* line 154: load in_critical of the next registered thread
ebr_scan_flag(t) ==
    /\ At(t, {"ebr_scan_flag"})
    /\ scan_seen' = [scan_seen EXCEPT ![t] =
            Append(@, <<thread_registry_[scan_pos[t]],
                        in_critical[thread_registry_[scan_pos[t]]], NoEpoch>>)]
    /\ LET ctx == thread_registry_[scan_pos[t]]
       IN IF in_critical[ctx]
          THEN /\ pc' = [pc EXCEPT ![t] = "ebr_scan_epoch"]
               /\ UNCHANGED scan_pos
          ELSE IF scan_pos[t] = Len(thread_registry_)
          THEN /\ pc' = [pc EXCEPT ![t] = "ebr_scan_advance"]
               /\ scan_pos' = [scan_pos EXCEPT ![t] = 0]
          ELSE /\ scan_pos' = [scan_pos EXCEPT ![t] = @ + 1]
               /\ UNCHANGED pc
    /\ UNCHANGED <<reclaimer, active, quota, serial, halted, exits, harness, rec_vars, pool_vars, mq_vars, out_before, copied, ghost_vars, queue_vars, nseq, new_node, curr_tail, tail_next,
                   curr_head, head_next, out, hp, is_acquired, rec_list,
                   retire_list, hazards, ebr_vars, hist_vars>>

\* Faulty variant: the scan takes every active thread to be at the snapshot.
epoch_behind_never(ctx, t) == FALSE

\* line 159: t_epoch != snapshot_epoch, for the scan of thread t
epoch_behind(ctx, t) == local_epoch[ctx] # snapshot_epoch[t]

\* lines 158-163: load local_epoch of a thread seen in_critical; a thread
\* that is behind the snapshot ends the scan without an advance
ebr_scan_epoch(t) ==
    /\ At(t, {"ebr_scan_epoch"})
    /\ scan_seen' = [scan_seen EXCEPT ![t][Len(scan_seen[t])][3] =
                        local_epoch[thread_registry_[scan_pos[t]]]]
    /\ LET ctx == thread_registry_[scan_pos[t]]
       IN IF epoch_behind(ctx, t)
          THEN /\ pc' = [pc EXCEPT ![t] = "ebr_scan_unlock"]
               /\ scan_pos' = [scan_pos EXCEPT ![t] = 0]
          ELSE IF scan_pos[t] = Len(thread_registry_)
          THEN /\ pc' = [pc EXCEPT ![t] = "ebr_scan_advance"]
               /\ scan_pos' = [scan_pos EXCEPT ![t] = 0]
          ELSE /\ pc' = [pc EXCEPT ![t] = "ebr_scan_flag"]
               /\ scan_pos' = [scan_pos EXCEPT ![t] = @ + 1]
    /\ UNCHANGED <<reclaimer, retire_epoch, active, quota, serial, halted, exits, harness, rec_vars, pool_vars, mq_vars, out_before, copied, ghost_vars, queue_vars, nseq, new_node, curr_tail, tail_next,
                   curr_head, head_next, out, hp, is_acquired, rec_list,
                   retire_list, hazards, global_epoch_, local_epoch, in_critical,
                   retire_lists, list_mtx_, thread_registry_, snapshot_epoch,
                   epoch_tmp, hist_vars>>

\* lines 167-171: every active thread is at the snapshot: advance the epoch
ebr_scan_advance(t) ==
    /\ At(t, {"ebr_scan_advance"})
    /\ UNCHANGED scan_seen
    /\ global_epoch_' = snapshot_epoch[t] + 1
    /\ pc' = [pc EXCEPT ![t] = "ebr_scan_unlock"]
    /\ UNCHANGED <<reclaimer, retire_epoch, active, quota, serial, halted, exits, harness, rec_vars, pool_vars, mq_vars, out_before, copied, ghost_vars, queue_vars, nseq, new_node, curr_tail, tail_next,
                   curr_head, head_next, out, hp_vars, local_epoch, in_critical,
                   retire_lists, list_mtx_, thread_registry_, snapshot_epoch,
                   epoch_tmp, hist_vars>>

\* line 174: scan_and_retire() returns, the unique_lock releases list_mtx_
ebr_scan_unlock(t) ==
    /\ At(t, {"ebr_scan_unlock"})
    /\ list_mtx_' = Unlocked
    /\ scan_seen' = [scan_seen EXCEPT ![t] = <<>>]
    /\ snapshot_epoch' = [snapshot_epoch EXCEPT ![t] = 0]
    /\ pc' = [pc EXCEPT ![t] = ebr_scan_return(t)]
    /\ UNCHANGED <<reclaimer, retire_epoch, active, quota, serial, halted, exits, harness, rec_vars, pool_vars, mq_vars, out_before, copied, ghost_vars, queue_vars, nseq, new_node, curr_tail, tail_next,
                   curr_head, head_next, out, hp_vars, global_epoch_, local_epoch,
                   in_critical, retire_lists, thread_registry_, epoch_tmp,
                   hist_vars>>

\* Faulty variant: the cleanup empties the bucket of the current epoch.
safe_idx_current(e) == e % 3

\* The bucket attempt_local_cleanup() empties when it reads epoch e (line 188).
safe_idx(e) == (e + 1) % 3

\* attempt_local_cleanup(), lines 183-194, then try_dequeue returns true
ebr_cleanup(t) ==
    /\ At(t, {"r_cleanup"})
    /\ LET idx == safe_idx(global_epoch_)
       IN /\ deallocate(t, retire_lists[t][idx])
          /\ retire_lists' = [retire_lists EXCEPT ![t][idx] = <<>>]
    /\ curr_head' = [curr_head EXCEPT ![t] = NULL]
    /\ pc' = [pc EXCEPT ![t] = "exit"]
    /\ UNCHANGED <<reclaimer, retire_epoch, active, quota, serial, halted, exits, harness, rec_vars, mq_vars, scan_seen, out_before, copied, ghost_vars, head_, tail_, closed_, next, value, nseq, new_node,
                   curr_tail, tail_next, head_next, out, hp_vars, global_epoch_,
                   local_epoch, in_critical, list_mtx_, thread_registry_,
                   snapshot_epoch, epoch_tmp, hist_vars>>

\* The thread function of t returns and its thread_local ThreadContext is
\* destroyed. ~ThreadContext(), line 59, unregister_thread(), lines 207-211:
\* the lock_guard waits for list_mtx_, the context leaves the registry.
unregister_thread(t) ==
    /\ t \in exits \cap active
    /\ At(t, {"idle"})
    /\ reclaimer = "EBR"
    /\ list_mtx_ = Unlocked
    /\ thread_registry_' = SelectSeq(thread_registry_, LAMBDA u : u # t)
    /\ pc' = [pc EXCEPT ![t] = "x_clean"]
    /\ UNCHANGED <<reclaimer, retire_epoch, active, quota, serial, halted, exits, harness, rec_vars, pool_vars, mq_vars, scan_seen, out_before, copied, ghost_vars, queue_vars, nseq, new_node, curr_tail, tail_next,
                   curr_head, head_next, out, hp_vars, global_epoch_, local_epoch,
                   in_critical, retire_lists, list_mtx_, snapshot_epoch, epoch_tmp,
                   hist_vars>>

\* ~ThreadContext(), lines 60-65: the deleter runs on every node of the three
\* buckets, whatever their epoch.
context_destroy(t) ==
    /\ At(t, {"x_clean"})
    /\ deallocate(t, retire_lists[t][0] \o retire_lists[t][1] \o retire_lists[t][2])
    /\ retire_lists' = [retire_lists EXCEPT ![t] = [i \in 0..2 |-> <<>>]]
    /\ pc' = [pc EXCEPT ![t] = "gone"]
    /\ UNCHANGED <<reclaimer, retire_epoch, active, quota, serial, halted, exits, harness, rec_vars, mq_vars, scan_seen, out_before, copied, ghost_vars, head_, tail_, closed_, next, value, nseq, new_node,
                   curr_tail, tail_next, curr_head, head_next, out, hp_vars, global_epoch_,
                   local_epoch, in_critical, list_mtx_, thread_registry_,
                   snapshot_epoch, epoch_tmp, hist_vars>>

\* ------------------------------------------------- UnsafeDirectReclamation
\* tests_correctness_main.cpp lines 146-154: retire(p) is delete p, the node
\* goes back to the pool at once; then try_dequeue returns true.
unsafe_retire(t) ==
    /\ At(t, {"u_retire"})
    /\ deallocate(t, <<curr_head[t]>>)
    /\ curr_head' = [curr_head EXCEPT ![t] = NULL]
    /\ pc' = [pc EXCEPT ![t] = "idle"]
    /\ UNCHANGED <<reclaimer, active, quota, serial, halted, exits, harness, rec_vars, mq_vars, scan_seen, out_before, copied, ghost_vars, head_, tail_, closed_, next, value, nseq, new_node,
                   curr_tail, tail_next, head_next, out, hp_vars, ebr_vars, hist_vars>>

\* --------------------------------------------------------------- quiescent
\* LockFreeQueue::quiescent() = Reclaimer::quiescent(): a scan under HP, the
\* load of global_epoch_ in quiescent_state() under EBR, nothing under Leak.
\* A HP scan of an empty retire_list only reads; such calls are left out.
quiescent(t) ==
    /\ t \in active
    /\ At(t, {"idle"})
    /\ t \in Consumers => cstage[t] \notin {2, 3, 4}
    /\ nquiescent < MaxQuiescent
    /\ nquiescent' = nquiescent + 1
    /\ reclaimer \in {"HP", "EBR"}
    /\ IF reclaimer = "HP"
         THEN /\ retire_list[t] # <<>>
              /\ pc' = [pc EXCEPT ![t] = "hp_scan"]
              /\ scan_pos' = [scan_pos EXCEPT ![t] = 1]
              /\ UNCHANGED epoch_tmp
         ELSE /\ epoch_tmp' = [epoch_tmp EXCEPT ![t] = global_epoch_]
              /\ pc' = [pc EXCEPT ![t] = "q_store"]
              /\ UNCHANGED scan_pos
    /\ UNCHANGED <<reclaimer, retire_epoch, reused, active, quota, serial, halted, exits, harness, rec_vars, pool_vars, mq_vars, scan_seen, out_before, copied, ghost_vars, queue_vars, nseq, new_node, curr_tail, tail_next,
                   curr_head, head_next, out, hp, is_acquired, rec_list,
                   retire_list, hazards, global_epoch_, local_epoch, in_critical,
                   retire_lists, list_mtx_, thread_registry_, snapshot_epoch,
                   linked, dequeued, nclose, seen_closed, uaf>>

\* quiescent_state(), lines 131-132: refresh local_epoch, then scan_and_retire()
quiescent_store_epoch(t) ==
    /\ At(t, {"q_store"})
    /\ local_epoch' = [local_epoch EXCEPT ![t] = epoch_tmp[t]]
    /\ epoch_tmp' = [epoch_tmp EXCEPT ![t] = 0]
    /\ pc' = [pc EXCEPT ![t] = "ebr_scan"]
    /\ UNCHANGED <<reclaimer, retire_epoch, active, quota, serial, halted, exits, harness, rec_vars, pool_vars, mq_vars, scan_seen, out_before, copied, ghost_vars, queue_vars, nseq, new_node, curr_tail, tail_next,
                   curr_head, head_next, out, hp_vars, global_epoch_, in_critical,
                   retire_lists, list_mtx_, thread_registry_, snapshot_epoch,
                   hist_vars>>

\* lines 761-764: is_closed() called by a consumer
is_closed(t) ==
    /\ t \in Consumers \cap active
    /\ At(t, {"idle"})
    /\ cstage[t] \notin {2, 4}
    /\ harness = "first" => cstage[t] = 3
    /\ cstage' = [cstage EXCEPT ![t] =
                    IF ~closed_load THEN 0 ELSE IF harness = "first" THEN 4 ELSE 1]
    /\ seen_closed' = (seen_closed \/ closed_load)
    /\ UNCHANGED <<reclaimer, reused, active, quota, serial, halted, exits, harness, rec_vars, pool_vars, mq_vars, scan_seen, out_before, copied, ret, began, dropped, at_close, queue_vars, local_vars, hp_vars, ebr_vars,
                   linked, dequeued, nclose, nquiescent, uaf>>

reclaim(t) ==
    \/ enter_store_epoch(t)
    \/ enter_store_flag(t)
    \/ exit_critical(t)
    \/ hp_scan_read(t)
    \/ hp_scan_free(t)
    \/ thread_exit(t)
    \/ release_record(t)
    \/ unregister_thread(t)
    \/ context_destroy(t)
    \/ ebr_retire_node(t)
    \/ ebr_scan_lock(t)
    \/ ebr_scan_flag(t)
    \/ ebr_scan_epoch(t)
    \/ ebr_scan_advance(t)
    \/ ebr_scan_unlock(t)
    \/ ebr_cleanup(t)
    \/ unsafe_retire(t)
    \/ quiescent(t)
    \/ quiescent_store_epoch(t)

\* A dereference of a freed node is undefined behaviour; the run is not
\* followed beyond it.
Next ==
    \E t \in Threads :
        \/ enqueue(t)
        \/ try_dequeue(t)
        \/ close(t)
        \/ is_closed(t)
        \/ reclaim(t)

Spec == Init /\ [][Next]_vars

\* The steps of the queue with the hazard pointer reclaimer.
HpNext ==
    \E t \in Threads :
        \/ enqueue_call(t)
        \/ enqueue_new(t)
        \/ enqueue_load_tail(t)
        \/ enqueue_protect(t)
        \/ enqueue_validate(t)
        \/ enqueue_load_next(t)
        \/ enqueue_closed2(t)
        \/ enqueue_clear_closed(t)
        \/ enqueue_delete(t)
        \/ enqueue_validate2(t)
        \/ enqueue_link(t)
        \/ enqueue_link_fail(t)
        \/ enqueue_help(t)
        \/ enqueue_swing_tail(t)
        \/ enqueue_clear_done(t)
        \/ dequeue_call(t)
        \/ dequeue_load_head(t)
        \/ dequeue_protect_head(t)
        \/ dequeue_validate(t)
        \/ dequeue_load_tail(t)
        \/ dequeue_load_next(t)
        \/ dequeue_clear0_empty(t)
        \/ dequeue_clear1_empty(t)
        \/ dequeue_protect_next(t)
        \/ dequeue_validate2(t)
        \/ dequeue_help(t)
        \/ dequeue_read_value(t)
        \/ dequeue_swing_head(t)
        \/ dequeue_swing_head_fail(t)
        \/ dequeue_clear0_done(t)
        \/ dequeue_clear1_done(t)
        \/ close(t)
        \/ is_closed(t)
        \/ hp_scan_read(t)
        \/ hp_scan_free(t)
        \/ thread_exit(t)
        \/ release_record(t)
        \/ quiescent(t)

\* The steps of the queue with the epoch based reclaimer.
EbrNext ==
    \E t \in Threads :
        \/ enqueue_call(t)
        \/ enqueue_closed(t)
        \/ enqueue_new(t)
        \/ enqueue_load_tail(t)
        \/ enqueue_validate(t)
        \/ enqueue_load_next(t)
        \/ enqueue_closed2(t)
        \/ enqueue_delete(t)
        \/ enqueue_validate2(t)
        \/ enqueue_link(t)
        \/ enqueue_link_fail(t)
        \/ enqueue_help(t)
        \/ enqueue_swing_tail(t)
        \/ dequeue_call(t)
        \/ dequeue_load_head(t)
        \/ dequeue_validate(t)
        \/ dequeue_load_tail(t)
        \/ dequeue_load_next(t)
        \/ dequeue_validate2(t)
        \/ dequeue_help(t)
        \/ dequeue_read_value(t)
        \/ dequeue_swing_head(t)
        \/ dequeue_swing_head_fail(t)
        \/ close(t)
        \/ is_closed(t)
        \/ enter_store_epoch(t)
        \/ enter_store_flag(t)
        \/ exit_critical(t)
        \/ unregister_thread(t)
        \/ context_destroy(t)
        \/ ebr_retire_node(t)
        \/ ebr_scan_lock(t)
        \/ ebr_scan_flag(t)
        \/ ebr_scan_epoch(t)
        \/ ebr_scan_advance(t)
        \/ ebr_scan_unlock(t)
        \/ ebr_cleanup(t)
        \/ quiescent(t)
        \/ quiescent_store_epoch(t)

\* The steps of the queue with UnsafeDirectReclamation.
AbaNext ==
    \E t \in Threads :
        \/ enqueue_call(t)
        \/ enqueue_new(t)
        \/ enqueue_load_tail(t)
        \/ enqueue_validate(t)
        \/ enqueue_load_next(t)
        \/ enqueue_closed2(t)
        \/ enqueue_validate2(t)
        \/ enqueue_link(t)
        \/ enqueue_link_fail(t)
        \/ enqueue_swing_tail(t)
        \/ dequeue_call(t)
        \/ dequeue_load_head(t)
        \/ dequeue_validate(t)
        \/ dequeue_load_tail(t)
        \/ dequeue_load_next(t)
        \/ dequeue_validate2(t)
        \/ dequeue_help(t)
        \/ dequeue_read_value(t)
        \/ dequeue_swing_head(t)
        \/ dequeue_swing_head_fail(t)
        \/ close(t)
        \/ is_closed(t)
        \/ unsafe_retire(t)

\* The steps of the drain protocol runs.
DrainNext ==
    \E t \in Threads :
        \/ enqueue_call(t)
        \/ enqueue_new(t)
        \/ enqueue_load_tail(t)
        \/ enqueue_protect(t)
        \/ enqueue_validate(t)
        \/ enqueue_load_next(t)
        \/ enqueue_closed2(t)
        \/ enqueue_validate2(t)
        \/ enqueue_delete(t)
        \/ enqueue_help(t)
        \/ enqueue_link(t)
        \/ enqueue_link_fail(t)
        \/ enqueue_swing_tail(t)
        \/ enqueue_clear_done(t)
        \/ dequeue_call(t)
        \/ dequeue_load_head(t)
        \/ dequeue_protect_head(t)
        \/ dequeue_validate(t)
        \/ dequeue_load_tail(t)
        \/ dequeue_load_next(t)
        \/ dequeue_clear0_empty(t)
        \/ dequeue_clear1_empty(t)
        \/ dequeue_protect_next(t)
        \/ dequeue_validate2(t)
        \/ dequeue_help(t)
        \/ dequeue_read_value(t)
        \/ dequeue_swing_head(t)
        \/ dequeue_swing_head_fail(t)
        \/ dequeue_clear0_done(t)
        \/ dequeue_clear1_done(t)
        \/ close(t)
        \/ is_closed(t)
        \/ hp_scan_read(t)
        \/ hp_scan_free(t)
        \/ quiescent(t)
        \/ enqueue_closed(t)
        \/ enter_store_epoch(t)
        \/ enter_store_flag(t)
        \/ exit_critical(t)
        \/ ebr_retire_node(t)
        \/ ebr_scan_lock(t)
        \/ ebr_scan_flag(t)
        \/ ebr_scan_epoch(t)
        \/ ebr_scan_advance(t)
        \/ ebr_scan_unlock(t)
        \/ ebr_cleanup(t)
        \/ quiescent_store_epoch(t)

HpSpec == HpInit /\ [][HpNext]_vars

EbrSpec == EbrInit /\ [][EbrNext]_vars

AbaSpec == AbaInit /\ [][AbaNext]_vars

DrainSpec == DrainInit /\ [][DrainNext]_vars

\* ------------------------------------------------- HP record acquisition
\* The threads of this specification start one after the other or together,
\* each constructs its ThreadContext with acquire_record(), publishes and
\* clears hazard pointers, and lets its thread function return, which releases
\* the record for the threads that start later. No queue operation runs: the
\* retire lists stay empty, so ~ThreadContext() goes straight to
\* release_record (thread_exit, release_record above).

\* HPRecType::next of a record of the list; the field is written once, before
\* the record is published.
rec_next(r) ==
    LET k == CHOOSE i \in 0..Len(rec_list) : (i = 0 /\ r \notin Range(rec_list)) \/ (i > 0 /\ rec_list[i] = r)
    IN  IF k = 0 \/ k = Len(rec_list) THEN NoRec ELSE rec_list[k + 1]

\* head_rec_.load()
head_rec_ == IF rec_list = <<>> THEN NoRec ELSE Head(rec_list)

\* The list that starts at record r.
ListFrom(r) ==
    IF r \notin Range(rec_list) THEN <<>>
    ELSE LET k == CHOOSE i \in 1..Len(rec_list) : rec_list[i] = r
         IN  SubSeq(rec_list, k, Len(rec_list))

\* Faulty variant: the record is taken with a plain store.
acquire_cas_blind(r) == TRUE

\* lines 458-461: is_acquired.compare_exchange_strong(expected = false, true)
acquire_cas(r) == ~is_acquired[r]

\* Faulty variant: the new record is stored into head_rec_ without comparing.
head_cas_blind(t) == TRUE

\* lines 479-481: head_rec_.compare_exchange_weak(old_head, new_rec) can succeed
head_cas(t) == head_rec_ = old_head[t]

\* get_context(), lines 327-331, first call in thread t: the constructor of the
\* thread_local ThreadContext (line 311) enters acquire_record(); line 452.
thread_start(t) ==
    /\ t \notin active
    /\ At(t, {"idle"})
    /\ reclaimer = "HP"
    /\ active' = active \cup {t}
    /\ curr_rec' = [curr_rec EXCEPT ![t] = head_rec_]
    /\ pc' = [pc EXCEPT ![t] = "a_test"]
    /\ UNCHANGED <<reclaimer, quota, serial, halted, exits, harness, pool_vars, mq_vars,
                   scan_seen, out_before, copied, queue_vars, nseq, new_node,
                   curr_tail, tail_next, curr_head, head_next, out, hp_vars,
                   my_rec, old_head, ebr_vars, hist_vars, ghost_vars>>

\* lines 453-455 and 465: the loop test, the load of is_acquired, the step to
\* the next record
acquire_record_test(t) ==
    /\ At(t, {"a_test"})
    /\ IF curr_rec[t] = NoRec
         THEN /\ pc' = [pc EXCEPT ![t] = "a_new"]
              /\ UNCHANGED curr_rec
         ELSE IF ~is_acquired[curr_rec[t]]
              THEN /\ pc' = [pc EXCEPT ![t] = "a_cas"]
                   /\ UNCHANGED curr_rec
              ELSE /\ curr_rec' = [curr_rec EXCEPT ![t] = rec_next(@)]
                   /\ UNCHANGED pc
    /\ UNCHANGED <<reclaimer, active, quota, serial, halted, exits, harness, pool_vars,
                   mq_vars, scan_seen, out_before, copied, queue_vars, nseq, new_node,
                   curr_tail, tail_next, curr_head, head_next, out, hp_vars,
                   my_rec, old_head, ebr_vars, hist_vars, ghost_vars>>

\* lines 457-465: the CAS on is_acquired; the record is returned to the
\* constructor (my_rec) when it succeeds, else the loop goes on
acquire_record_cas(t) ==
    /\ At(t, {"a_cas"})
    /\ IF acquire_cas(curr_rec[t])
         THEN /\ is_acquired' = [is_acquired EXCEPT ![curr_rec[t]] = TRUE]
              /\ my_rec' = [my_rec EXCEPT ![t] = curr_rec[t]]
              /\ curr_rec' = [curr_rec EXCEPT ![t] = NoRec]
              /\ pc' = [pc EXCEPT ![t] = "idle"]
         ELSE /\ curr_rec' = [curr_rec EXCEPT ![t] = rec_next(@)]
              /\ pc' = [pc EXCEPT ![t] = "a_test"]
              /\ UNCHANGED <<is_acquired, my_rec>>
    /\ UNCHANGED <<reclaimer, active, quota, serial, halted, exits, harness, pool_vars,
                   mq_vars, scan_seen, out_before, copied, queue_vars, nseq, new_node,
                   curr_tail, tail_next, curr_head, head_next, out, hp, rec_list,
                   retire_list, hazards, scan_pos, old_head, ebr_vars, hist_vars,
                   ghost_vars>>

\* lines 471-475: new HPRecType() (the constructor clears the slots),
\* is_acquired.store(true), old_head = head_rec_.load()
acquire_record_new(t) ==
    /\ At(t, {"a_new"})
    /\ hp' = [hp EXCEPT ![t] = [i \in Slots |-> NULL]]
    /\ is_acquired' = [is_acquired EXCEPT ![t] = TRUE]
    /\ old_head' = [old_head EXCEPT ![t] = head_rec_]
    /\ pc' = [pc EXCEPT ![t] = "a_link"]
    /\ UNCHANGED <<reclaimer, active, quota, serial, halted, exits, harness, pool_vars,
                   mq_vars, scan_seen, out_before, copied, queue_vars, nseq, new_node,
                   curr_tail, tail_next, curr_head, head_next, out, rec_list,
                   retire_list, hazards, scan_pos, my_rec, curr_rec, ebr_vars,
                   hist_vars, ghost_vars>>

\* lines 476-483: new_rec->next = old_head, then the weak CAS on head_rec_; a
\* failure, spurious or not, reloads old_head and repeats
acquire_record_link(t) ==
    /\ At(t, {"a_link"})
    /\ \/ /\ head_cas(t)
          /\ rec_list' = <<t>> \o ListFrom(old_head[t])
          /\ my_rec' = [my_rec EXCEPT ![t] = t]
          /\ old_head' = [old_head EXCEPT ![t] = NoRec]
          /\ pc' = [pc EXCEPT ![t] = "idle"]
       \/ /\ old_head' = [old_head EXCEPT ![t] = head_rec_]
          /\ UNCHANGED <<rec_list, my_rec, pc>>
    /\ UNCHANGED <<reclaimer, active, quota, serial, halted, exits, harness, pool_vars,
                   mq_vars, scan_seen, out_before, copied, queue_vars, nseq, new_node,
                   curr_tail, tail_next, curr_head, head_next, out, hp, is_acquired,
                   retire_list, hazards, scan_pos, curr_rec, ebr_vars, hist_vars,
                   ghost_vars>>

\* The pointers a thread publishes: the dummy node or nullptr.
RecPtrs == {NULL, 1}

\* protect(idx, ptr) and clear(idx), lines 340-359: a store to slot idx of the
\* record the calling thread holds
protect(t) ==
    /\ t \in active
    /\ At(t, {"idle"})
    /\ \E idx \in Slots : \E ptr \in RecPtrs :
         /\ hp[my_rec[t]][idx] # ptr
         /\ hp' = [hp EXCEPT ![my_rec[t]][idx] = ptr]
    /\ UNCHANGED <<reclaimer, active, quota, serial, halted, exits, harness, pool_vars,
                   mq_vars, scan_seen, out_before, copied, queue_vars, local_vars,
                   is_acquired, rec_list, retire_list, hazards, scan_pos, rec_vars,
                   ebr_vars, hist_vars, ghost_vars>>

\* No thread has started; every thread may start, and may return.
RecWorkload == XW("HP", {}, 0, 0, 0, Threads)

RecInit == InitWith(RecWorkload, "none")

RecNext ==
    \E t \in Threads :
        \/ thread_start(t)
        \/ acquire_record_test(t)
        \/ acquire_record_cas(t)
        \/ acquire_record_new(t)
        \/ acquire_record_link(t)
        \/ protect(t)
        \/ thread_exit(t)
        \/ release_record(t)

RecSpec == RecInit /\ [][RecNext]_vars

\* ---------------------------------------------------------------- liveness
\* The steps of thread t.
Step(t) == enqueue(t) \/ try_dequeue(t) \/ close(t) \/ is_closed(t) \/ reclaim(t)

\* Every thread but the halted one keeps being scheduled, and a
\* compare_exchange_weak that finds the expected value again and again does
\* not fail spuriously for ever. Nothing is assumed of the halted thread: it
\* may stop at any point of a call, or run on.
Fairness ==
    /\ \A t \in Threads : WF_vars(t # halted /\ Step(t))
    /\ \A t \in Threads : SF_vars(t # halted /\ enqueue_link(t))
    /\ \A t \in Threads : SF_vars(t # halted /\ dequeue_swing_head(t))

\* The workloads of the liveness checks, each with the threads that may be
\* the halted one ("none": every thread keeps being scheduled).
LiveWorkloads ==
    { [w |-> W("Leak", {"p1", "p2"}, 1, 1, 0),       halt |-> {"p1"}],
      [w |-> W("HP",   {"p1", "p2"}, 1, 1, 0),       halt |-> {"p2"}],
      [w |-> W("HP",   {"p1", "c1"}, 1, 0, 0),       halt |-> {"p1", "c1"}],
      [w |-> W("EBR",  {"p1", "c1"}, 1, 0, 0),       halt |-> {"c1"}],
      [w |-> W("Unsafe", {"p1", "c1"}, 1, 0, 0),     halt |-> {"p1"}],
      [w |-> XW("HP",  {"p1", "c1"}, 1, 0, 0, {"c1"}), halt |-> {"p1"}],
      [w |-> XW("EBR", {"c1"}, 0, 0, 1, {"c1"}),      halt |-> {"none"}] }

LiveInit == \E l \in LiveWorkloads : \E h \in l.halt : InitWith(l.w, h)

LiveSpec == LiveInit /\ [][Next]_vars /\ Fairness

\* ================================================================ claims
\* The queue runs with one of the reclaimers of include/reclaimer, not with
\* the UnsafeDirectReclamation of the ABA demonstration.
LibraryReclaimer == reclaimer \in {"Leak", "HP", "EBR"}

\* The payloads try_dequeue has returned, in the order of the head CAS.
DequeuedValues == [i \in DOMAIN dequeued |-> dequeued[i][2]]

RECURSIVE SumQuota(_)
SumQuota(S) ==
    IF S = {} THEN 0
    ELSE LET p == CHOOSE x \in S : TRUE IN quota[p] + SumQuota(S \ {p})

\* Every item the workload's producers enqueue.
AllItems == UNION { { <<p, i>> : i \in 0..(quota[p] - 1) } : p \in Producers \cap active }

\* The harness protocol of test_linearization: close() was called once, after
\* every enqueue had returned true, and every consumer has stopped, which it
\* does after is_closed() returned true and the try_dequeue after it false.
DrainProtocolDone ==
    /\ nclose = 1
    /\ at_close.alldone
    /\ Consumers \cap active # {}
    /\ \A c \in Consumers \cap active : cstage[c] = 2

C2_PerProducerFifo ==
    \A i, j \in DOMAIN dequeued :
        (LibraryReclaimer /\ i < j /\ dequeued[i][1] = dequeued[j][1]) =>
            /\ Len(dequeued[i][2]) = 2
            /\ Len(dequeued[j][2]) = 2
            /\ dequeued[i][2][1] = dequeued[j][2][1] => dequeued[i][2][2] < dequeued[j][2][2]

\* with two consumers running, one of them has received two items of a producer
C2_Witness ==
    \E i, j \in DOMAIN dequeued :
        /\ i < j
        /\ dequeued[i][1] = dequeued[j][1]
        /\ dequeued[i][2][1] = dequeued[j][2][1]
        /\ Cardinality(Consumers \cap active) = 2

\* C3: global FIFO. The successful head CAS operations take the items in the
\* order in which the successful next CAS operations linked them: the k-th
\* item dequeued is the k-th item linked.
C3_GlobalFifo ==
    LibraryReclaimer =>
        /\ Len(dequeued) <= Len(linked)
        /\ \A k \in DOMAIN dequeued : dequeued[k][2] = linked[k]

C3_Witness ==
    /\ Len(dequeued) = 2
    /\ linked[1][1] # linked[2][1]

\* C4: hazard-pointer safety. Under HP no thread dereferences a node that was
\* given to its deleter: not the tail node in enqueue, not the head node or
\* its successor in try_dequeue, with HP_COUNT_PER_THREAD = 2 slots a thread.
C4_HazardPointerSafety == reclaimer = "HP" => ~uaf

\* a scan has deleted a node while it kept another that a thread about to
\* dereference it protects
C4_Witness ==
    /\ reclaimer = "HP"
    /\ \E a \in Addrs : mem[a] = "freed"
    /\ \E t, u \in Threads :
        /\ t # u
        /\ pc[t] = "idle"
        /\ \/ pc[u] = "d_next" /\ curr_head[u] \in Range(retire_list[t])
           \/ pc[u] = "e_next" /\ curr_tail[u] \in Range(retire_list[t])

\* The nodes thread t holds a pointer to inside enqueue or try_dequeue.
Held(t) == {curr_tail[t], curr_head[t], head_next[t], new_node[t]} \ {NULL}

\* C5: epoch safety. Under EBR, with no thread exiting, no thread inside a
\* critical section dereferences a node attempt_local_cleanup() has deleted,
\* and no node such a thread holds a pointer to is deleted before the thread
\* leaves its critical section.
C5_EpochSafety ==
    (reclaimer = "EBR" /\ exits = {}) =>
        /\ ~uaf
        /\ \A t \in Threads : in_critical[t] => \A a \in Held(t) : mem[a] = "live"

\* a cleanup has deleted a node while another thread is inside a critical
\* section, about to dereference the node it loaded
C5_Witness ==
    /\ reclaimer = "EBR"
    /\ \E a \in Addrs : mem[a] = "freed"
    /\ \E u \in Threads : in_critical[u] /\ pc[u] \in {"d_next", "d_value"}

\* A step of producer t inside enqueue, its call included.
EnqueueStep(t) == pc'[t] # pc[t] \/ nseq'[t] # nseq[t]

\* C6: enqueue after close. An enqueue that begins after close() has returned
\* returns false, links no node, and leaves head, tail and every next link
\* as they were.
C6_EnqueueAfterClose ==
    /\ [](\A t \in Producers : began[t] > 0 =>
            /\ ret[t] # "true"
            /\ pc[t] = "idle" => ret[t] = "false")
    /\ [][\A t \in Producers : (began'[t] > 0 /\ EnqueueStep(t)) =>
            UNCHANGED <<head_, tail_, next, linked>>]_vars

C6_Witness ==
    \E t \in Producers :
        /\ began[t] > 0
        /\ pc[t] = "idle"
        /\ ret[t] = "false"
        /\ Items # <<>>

\* A step in which producer t evaluates is_closed() (lines 608 and 630).
ClosedCheckStep(t) ==
    \/ pc[t] \in {"e_closed", "e_closed2"} /\ pc'[t] # pc[t]
    \/ reclaimer # "EBR" /\ nseq'[t] # nseq[t]

\* C7: enqueue returns false exactly when one of its is_closed() calls read
\* closed = true; it never returns false before close() was called, and the
\* value of a failed enqueue is never linked and never dequeued.
C7_EnqueueFalseIffClosed ==
    /\ [](/\ \A t \in Producers : ret[t] = "false" => nclose > 0
          /\ dropped # {} => nclose > 0
          /\ dropped \cap Range(linked) = {}
          /\ dropped \cap Range(DequeuedValues) = {})
    /\ [][\A t \in Producers :
            /\ (ret[t] # "false" /\ ret'[t] = "false") => (closed_ /\ ClosedCheckStep(t))
            /\ (closed_ /\ ClosedCheckStep(t)) => ret'[t] = "false"]_vars

\* an enqueue that began before close() fails at its second check, and its
\* node is deleted while the items linked before stay in the queue
C7_Witness ==
    \E t \in Producers :
        /\ ret[t] = "false"
        /\ began[t] = 0
        /\ pc[t] = "idle"
        /\ <<t, nseq[t] - 1>> \in dropped
        /\ linked # <<>>

\* The payloads dequeued since the last close().
SinceClose == SubSeq(DequeuedValues, at_close.ndeq + 1, Len(dequeued))

\* A step in which try_dequeue of consumer c decides to return false (line 701).
DequeueFalse(c) == pc[c] = "d_next" /\ pc'[c] \in {"d_clear0_f", "exit", "idle"}

\* C8: drain after close. When close() returns with n items linked and no
\* enqueue in flight, the queue yields exactly those n items in FIFO order:
\* what was dequeued since is a prefix of them, what remains is the rest, and
\* a try_dequeue decides false after the close only when all n are taken.
\* close() itself removes nothing.
C8_DrainAfterClose ==
    /\ []((LibraryReclaimer /\ nclose > 0 /\ at_close.quiet) =>
            LET n == Len(at_close.items)
                k == Len(dequeued) - at_close.ndeq
            IN  /\ k <= n
                /\ SinceClose = SubSeq(at_close.items, 1, k)
                /\ Items = SubSeq(at_close.items, k + 1, n))
    /\ [][\A c \in Consumers :
            (LibraryReclaimer /\ nclose > 0 /\ at_close.quiet /\ DequeueFalse(c)) =>
                Len(dequeued) - at_close.ndeq = Len(at_close.items)]_vars

\* two items were linked at a quiet close, both were dequeued after it, and a
\* try_dequeue that followed an is_closed() = true has returned false
C8_Witness ==
    /\ nclose > 0
    /\ at_close.quiet
    /\ Len(at_close.items) = 2
    /\ SinceClose = at_close.items
    /\ \E c \in Consumers : cstage[c] = 2

\* C9: try_dequeue returns false only if the queue was empty at an instant
\* of the call: when the call decides false, head_.next is null for the node
\* head_ points to.
C9_FalseOnlyWhenEmpty ==
    [][\A c \in Consumers :
        (LibraryReclaimer /\ DequeueFalse(c)) => next[head_] = NULL]_vars

\* a try_dequeue has returned false after every item linked was dequeued
C9_Witness ==
    \E c \in Consumers :
        /\ cstage[c] = 2
        /\ linked # <<>>
        /\ Len(dequeued) = Len(linked)

\* C10: monotone close. closed is false until close() is called, no step
\* resets it, and once an is_closed() call has returned true the flag, which
\* every later is_closed() returns, is true.
C10_MonotoneClose ==
    /\ [](nclose = 0 => ~closed_)
    /\ [](seen_closed => closed_)
    /\ [][closed_ => closed_']_vars

\* both consumers have called is_closed() and got true, one after the other
C10_Witness ==
    /\ seen_closed
    /\ \A c \in Consumers : cstage[c] \in {1, 2}

\* No read of a deleted node, under any reclaimer.
\* C11: close() changes only the closed flag. A step that is a close() call
\* sets closed_ and leaves head_, tail_, every next link and payload, the
\* allocation state, every thread's locals and all reclaimer state (hazard
\* slots, retire lists, epochs, flags, mutex) unchanged; a close() on a queue
\* that is already closed changes nothing of the program state at all.
C11_CloseFrame ==
    /\ [][nclose' # nclose =>
             /\ closed_'
             /\ UNCHANGED <<head_, tail_, next, value, mem, local_vars, hp_vars, ebr_vars>>]_vars
    /\ [][nclose' # nclose /\ closed_ =>
             UNCHANGED <<queue_vars, local_vars, hp_vars, ebr_vars>>]_vars

\* A second close() was made on a queue that still held an item.
C11_Witness == nclose = 2 /\ closed_ /\ Items # <<>>

\* C12: round trip. When the calls are made one after the other on a queue
\* that is not closed, enqueue(v) never returns false and on return v is the
\* newest item; a try_dequeue that returns true yields the oldest item and
\* removes exactly it; try_dequeue returns false exactly when the queue holds
\* no item. So on an empty queue enqueue(v) returns true, the following
\* try_dequeue(w) returns true with w = v, and the one after returns false.
C12_RoundTrip ==
    /\ [](serial /\ ~closed_ => \A p \in Producers : ret[p] # "false")
    /\ [][serial /\ Len(linked') > Len(linked) =>
             \E p \in Producers :
                 /\ ret'[p] = "true"
                 /\ Items' = Append(Items, <<p, nseq[p] - 1>>)]_vars
    /\ [][serial /\ Len(dequeued') > Len(dequeued) =>
             /\ Items # <<>>
             /\ dequeued'[Len(dequeued')][2] = Head(Items)
             /\ Items' = Tail(Items)]_vars
    /\ [][\A c \in Consumers :
             serial /\ pc[c] = "d_next" /\ pc'[c] # "d_next" =>
                 (DequeueFalse(c) <=> Items = <<>>)]_vars

\* One after the other on a fresh queue: enqueue(v) returned true,
\* try_dequeue returned v, and the next try_dequeue is returning false.
C12_Witness ==
    /\ serial /\ ~closed_
    /\ linked = << <<"p1", 0>> >>
    /\ dequeued = << <<"c1", <<"p1", 0>> >> >>
    /\ ret["p1"] = "true"
    /\ pc["c1"] = "d_clear0_f"

KeepsCalling(c) ==
    /\ c \in Consumers \cap active
    /\ c # halted
    /\ cstage[c] \notin {2, 4}
    /\ pc[c] # "gone"

\* C14 (dequeue liveness): whenever the queue holds at least one item and some
\* consumer keeps calling try_dequeue, then under fair scheduling a further
\* try_dequeue returns true (the count of successful dequeues grows), unless
\* every such consumer has stopped calling in the meantime.
C14_DequeueLiveness ==
    \A n \in 0..NAddr :
        (Items # <<>> /\ Len(dequeued) = n /\ \E c \in Consumers : KeepsCalling(c))
            ~> (Len(dequeued) > n \/ uaf \/ ~\E c \in Consumers : KeepsCalling(c))

\* The producer stopped for good between its next CAS and its tail CAS; the
\* consumer has moved the lagging tail itself and taken the item.
C14_Witness ==
    /\ halted = "p1"
    /\ pc["p1"] = "e_cas_tail"
    /\ KeepsCalling("c1")
    /\ pc["c1"] = "idle"
    /\ dequeued = << <<"c1", <<"p1", 0>> >> >>
    /\ Items = <<>>

\* Some item has been returned by two successful try_dequeue calls.
ReturnedTwice ==
    \E i, j \in DOMAIN dequeued : i < j /\ dequeued[i][2] = dequeued[j][2]

\* The count/FIFO check of test_linearization fails: more items dequeued than
\* enqueued, or an item that is not the next one linked.
FifoViolated ==
    \/ Len(dequeued) > Len(linked)
    \/ \E k \in DOMAIN dequeued : k <= Len(linked) /\ dequeued[k][2] # linked[k]

\* C15 (ABA demonstration): with UnsafeDirectReclamation, which frees the old
\* head at once, there are interleavings in which an item is returned twice
\* or a freed node is dereferenced (C15_Witness). The count/FIFO failure is an
\* ABA failure: as long as no freed node was dereferenced, it happens only
\* after the allocator has handed a freed address out again.
C15_AbaNeedsReuse ==
    (reclaimer = "Unsafe" /\ ~uaf /\ ~reused) => (~FifoViolated /\ ~ReturnedTwice)

\* The first item was returned twice and no freed node was ever dereferenced:
\* the head CAS of the second consumer compared addresses only.
C15_Witness ==
    /\ reclaimer = "Unsafe"
    /\ ~uaf
    /\ reused
    /\ ReturnedTwice
    /\ FifoViolated
    /\ Len(dequeued) = 3
    /\ Len(linked) = 2

\* Under UnsafeDirectReclamation a freed node is dereferenced.
C15_UseAfterFree == reclaimer = "Unsafe" /\ uaf

\* The next CAS of producer t succeeds while closed_ is already true.
LateLink(t) == closed_ /\ pc[t] = "e_cas_next" /\ pc'[t] = "e_cas_tail"

\* C16 (close racing with enqueue): a node can be linked after close() has
\* returned only by an enqueue that began before that close() and passed both
\* is_closed() checks; that enqueue returns true, and its node is a normal
\* item: it is appended behind the items in the queue, and every item ever
\* linked is either in the queue, in link order, or has been returned by a
\* try_dequeue.
C16_CloseRacingEnqueue ==
    /\ [][\A t \in Producers :
            (LibraryReclaimer /\ LateLink(t)) =>
                /\ began[t] < nclose
                /\ ret'[t] = "true"
                /\ linked' = Append(linked, value[new_node[t]])
                /\ Items' = Append(Items, value[new_node[t]])]_vars
    /\ [](LibraryReclaimer => linked = DequeuedValues \o Items)

\* close() returned while the enqueue was between its second is_closed() and
\* its next CAS; the node was linked after that, the enqueue returned true and
\* a try_dequeue has returned the item.
C16_Witness ==
    \E t \in Producers :
        /\ LibraryReclaimer
        /\ nclose > 0
        /\ began[t] < nclose
        /\ pc[t] = "idle"
        /\ ret[t] = "true"
        /\ Len(linked) > at_close.ndeq + Len(at_close.items)
        /\ Len(dequeued) = Len(linked)

\* Consumer c has stopped as the consumer loop of the first revisions of
\* test_linearization stops: its try_dequeue returned false, the is_closed()
\* after it returned true, and it has made no call since.
StoppedOnFalseThenClosed(c) == pc[c] = "idle" /\ cstage[c] = 4

\* C17 (drain protocol): close() was called once, after every enqueue of every
\* producer had returned true, and every consumer has stopped as soon as a
\* try_dequeue returned false and the is_closed() after it returned true;
\* then no item remains in the queue.
C17_DrainOnFalseThenClosed ==
    ( /\ LibraryReclaimer
      /\ nclose = 1
      /\ at_close.alldone
      /\ Consumers \cap active # {}
      /\ \A c \in Consumers \cap active : StoppedOnFalseThenClosed(c) )
    => Items = <<>>

\* The nodes of the list that starts at a (the dummy node included).
RECURSIVE NodesFrom(_, _)
NodesFrom(a, fuel) ==
    IF a = NULL \/ fuel = 0 THEN {} ELSE {a} \cup NodesFrom(next[a], fuel - 1)

\* The nodes some code still has to delete or may still delete: the nodes of
\* the queue, a node an enqueue has allocated and not yet linked or deleted,
\* the old head a try_dequeue is about to retire, and the retirees of the
\* retire lists.
Owned ==
    NodesFrom(head_, NAddr)
    \cup {new_node[t] : t \in Threads}
    \cup {curr_head[t] : t \in {u \in Threads : pc[u] \in {"d_clear0_t", "d_clear1_t"}}}
    \cup UNION {Range(retire_list[t]) : t \in Threads}

\* The nodes that were never deleted and that no scan can delete any more.
Leaked == {a \in Addrs : mem[a] = "live" /\ a \notin Owned}

\* C18 (HP thread exit never leaks silently): under HP every node that is not
\* deleted is in the queue, in the hands of a running call, or in a retire
\* list that a later scan reads; a thread's exit leaves no node outside.
C18_NoSilentLeak == reclaimer = "HP" => Leaked = {}

\* The nodes a reclaimer has deleted after a try_dequeue retired them (the
\* nodes enqueue deletes itself carry the value of a failed enqueue).
FreedRetired == {a \in Addrs : mem[a] = "freed" /\ value[a] \notin dropped}

\* Thread t enters scan_and_retire().
ScanBegins(t) == pc[t] # "ebr_scan" /\ pc'[t] = "ebr_scan"

OneProducerOneConsumer ==
    /\ reclaimer = "EBR"
    /\ Cardinality(active \cap Producers) = 1
    /\ Cardinality(active \cap Consumers) = 1

\* The nodes thread t holds in its three retirement buckets.
Retired(t) == UNION {Range(retire_lists[t][i]) : i \in 0..2}

\* A step in which attempt_local_cleanup() of thread t runs.
CleanupStep(t) == pc[t] = "r_cleanup" /\ pc'[t] # pc[t]

RetiredNodes ==
    {curr_head[t] : t \in {u \in Threads : pc[u] \in {"d_clear0_t", "d_clear1_t", "r_retire"}}}
    \cup UNION {Range(retire_list[t]) : t \in Threads}
    \cup UNION {Retired(t) : t \in Threads}

\* C21 (head never overtakes tail): head_ and tail_ are never null, the node
\* tail_ points to is reached from head_ by following next links, and it is
\* neither retired nor freed.
C21_TailReachableFromHead ==
    LibraryReclaimer =>
        /\ head_ # NULL
        /\ tail_ # NULL
        /\ tail_ \in NodesFrom(head_, NAddr)
        /\ mem[tail_] = "live"
        /\ tail_ \notin RetiredNodes

\* A try_dequeue has found the tail lagging on the head node, with an item
\* linked behind it, after an earlier try_dequeue took an item out.
C21_Witness ==
    /\ reclaimer = "HP"
    /\ Len(dequeued) >= 1
    /\ head_ = tail_
    /\ next[head_] # NULL
    /\ \E c \in Consumers : pc[c] = "d_help" /\ curr_head[c] = head_

\* The next CAS of enqueue(t) succeeds: the node of t is linked.
LinkStep(t) == pc[t] = "e_cas_next" /\ pc'[t] = "e_cas_tail"

\* tail_ points to the node before the last one.
TailLagging == next[tail_] # NULL

\* C22 (tail lags by at most one link): the node tail_ points to is the last
\* linked node or the one immediately before it, and every successful next
\* CAS links the new node to the node tail_ points to, whose next was null:
\* no node is linked while tail_ is lagging.
C22_TailLagsAtMostOne ==
    /\ [](LibraryReclaimer =>
            (~TailLagging \/ next[next[tail_]] = NULL))
    /\ [][\A t \in Threads : (LibraryReclaimer /\ LinkStep(t)) =>
            /\ ~TailLagging
            /\ curr_tail[t] = tail_
            /\ next'[tail_] = new_node[t]]_vars

\* tail_ lags by one link behind the node another enqueue has just linked,
\* and a second enqueue has found it so and is about to help it on.
C22_Witness ==
    /\ LibraryReclaimer
    /\ TailLagging
    /\ next[next[tail_]] = NULL
    /\ \E p, q \in Producers :
          /\ p # q
          /\ pc[p] = "e_cas_tail"
          /\ next[tail_] = new_node[p]
          /\ pc[q] = "e_help"
          /\ curr_tail[q] = tail_

\* C23 (next is monotonic): a node on which no deleter has run, be it linked
\* in the queue or retired, keeps the non-null pointer its next field holds;
\* no step resets it to null or stores another node.
C23_NextMonotonic ==
    [][\A a \in Addrs : (mem[a] = "live" /\ next[a] # NULL) => next'[a] = next[a]]_vars

\* A retired node that is not freed still points to its successor, while
\* head_ has moved on beyond that successor.
C23_Witness ==
    \E a \in RetiredNodes :
        /\ mem[a] = "live"
        /\ next[a] # NULL
        /\ next[a] # head_
        /\ Len(dequeued) = 2

\* The nodes an enqueue has allocated and not linked (line 609 to line 641).
Fresh == {new_node[t] : t \in {u \in Threads : new_node[u] # NULL /\ pc[u] # "e_cas_tail"}}

\* The lifecycle phase of the node at address a: "unused" before its first
\* allocation, "fresh" from operator new to the next CAS, "live" while it is
\* reached from head_, "retired" once head_ has moved off it, "freed" once
\* its deleter has run.
Phase(a) ==
    IF mem[a] # "live" THEN mem[a]
    ELSE IF a \in Fresh THEN "fresh"
    ELSE IF a \in NodesFrom(head_, NAddr) THEN "live"
    ELSE "retired"

\* Every retirement buffer entry of every thread, as one sequence.
RECURSIVE Flatten(_)
Flatten(ss) == IF ss = <<>> THEN <<>> ELSE Head(ss) \o Flatten(Tail(ss))

RetireEntries ==
    Flatten([i \in 1..Len(TidOrder) |->
                retire_list[TidOrder[i]] \o retire_lists[TidOrder[i]][0]
                \o retire_lists[TidOrder[i]][1] \o retire_lists[TidOrder[i]][2]])

\* The changes of phase of section 4.5, and the allocation that starts a
\* life: fresh -> live -> retired -> freed.
Lifecycle ==
    {<<"unused", "fresh">>, <<"freed", "fresh">>, <<"fresh", "live">>,
     <<"live", "retired">>, <<"retired", "freed">>}

\* enqueue(t) gives up at its second is_closed() and deletes its node.
DropStep(t, a) == pc[t] = "e_delete" /\ new_node[t] = a /\ pc'[t] # pc[t]

\* The head CAS of try_dequeue(t) moves head_ off node a.
SwingStep(t, a) == pc[t] = "d_cas" /\ curr_head[t] = a /\ head_ = a /\ head_' # a

\* No retirement buffer holds a node twice, or a node that is freed.
RetiredOnce ==
    /\ \A i, j \in DOMAIN RetireEntries : RetireEntries[i] = RetireEntries[j] => i = j
    /\ \A i \in DOMAIN RetireEntries : mem[RetireEntries[i]] = "live"

\* C24 as stated (node lifecycle): a node changes phase only along
\* fresh -> live -> retired -> freed; in particular it is freed only after
\* it was retired.
C24_LifecycleOnly ==
    [][LibraryReclaimer =>
         \A a \in Addrs : Phase(a)' # Phase(a) => <<Phase(a), Phase(a)'>> \in Lifecycle]_vars

\* C24, amended: a node changes phase only along fresh -> live -> retired ->
\* freed, except that an enqueue that finds the queue closed at its second
\* check deletes its own fresh node; a node leaves the queue only by the head
\* CAS of the thread that then retires it; and no retirement buffer ever
\* holds a node twice or a node that is already freed, so a node is retired
\* at most once and freed at most once.
C24_Lifecycle ==
    /\ [][LibraryReclaimer =>
            \A a \in Addrs : Phase(a)' # Phase(a) =>
                \/ <<Phase(a), Phase(a)'>> \in Lifecycle
                \/ /\ <<Phase(a), Phase(a)'>> = <<"fresh", "freed">>
                   /\ \E t \in Producers : DropStep(t, a)]_vars
    /\ [][LibraryReclaimer =>
            \A a \in Addrs : (Phase(a) = "live" /\ Phase(a)' = "retired") =>
                \E t \in Consumers :
                    /\ SwingStep(t, a)
                    /\ reclaimer # "Leak" => curr_head'[t] = a]_vars
    /\ [](LibraryReclaimer => RetiredOnce)

\* One node was linked, retired and freed by the reclaimer, and another one
\* was deleted by the enqueue that found the queue closed.
C24_Witness ==
    /\ LibraryReclaimer
    /\ \E a \in FreedRetired : value[a] \in Range(linked) \/ a = 1
    /\ \E a \in Addrs : mem[a] = "freed" /\ value[a] \in dropped

\* The nodes a try_dequeue has taken out with its head CAS and has not yet
\* passed to retire_node.
InTransit ==
    {curr_head[t] : t \in {u \in Threads : pc[u] \in {"d_clear0_t", "d_clear1_t", "r_retire"}}}

\* The nodes deallocate() has taken back and operator new has not handed out
\* again: in a local cache, in the global pool, or passed on to
\* ::operator delete.
InPool == {a \in Addrs : mem[a] = "freed"}

\* In how many of the four places of the claim node a is.
Places(a) ==
    (IF a \in NodesFrom(head_, NAddr) THEN 1 ELSE 0)
    + (IF a \in Range(RetireEntries) THEN 1 ELSE 0)
    + (IF a \in InPool THEN 1 ELSE 0)
    + (IF a \in Fresh THEN 1 ELSE 0)

\* operator new returns in this step, to enqueue(t).
AllocStep(t) == pc[t] = "e_new" /\ pc'[t] # pc[t]

ScanFreeStep(t) == pc[t] \in {"hp_scan_free", "hp_scan_free_x"} /\ pc'[t] # pc[t]

\* The nodes a deleter runs on in this step.
FreedNow == {a \in Addrs : mem[a] = "live" /\ mem'[a] = "freed"}

\* C26 (the HP scan frees exactly the unprotected retirees): the step that
\* ends a scan deletes a node if and only if it is in the caller's retirement
\* buffer and was not among the hazard slot values the scan has read; the
\* retirees that were among them stay in the buffer, in order, each once.
C26_ScanFreesUnprotected ==
    [][\A t \in Threads : ScanFreeStep(t) =>
          /\ FreedNow = {a \in Range(retire_list[t]) : a \notin hazards[t]}
          /\ Range(retire_list'[t]) = Range(retire_list[t]) \cap hazards[t]
          /\ \A i, j \in DOMAIN retire_list'[t] :
                retire_list'[t][i] = retire_list'[t][j] => i = j
          /\ \A i, j \in DOMAIN retire_list[t] :
                (i < j /\ {retire_list[t][i], retire_list[t][j]} \subseteq hazards[t]) =>
                    \E k, l \in DOMAIN retire_list'[t] :
                        /\ k < l
                        /\ retire_list'[t][k] = retire_list[t][i]
                        /\ retire_list'[t][l] = retire_list[t][j]
          /\ \A u \in Threads \ {t} : retire_list'[u] = retire_list[u]]_vars

\* Two nodes were retired under HP; a scan has freed one and a scan has kept
\* the other, which another thread protects.
C26_Witness ==
    /\ reclaimer = "HP"
    /\ Len(dequeued) = 2
    /\ Cardinality(FreedRetired) = 1
    /\ \E t, u \in Consumers :
          /\ t # u
          /\ pc[t] = "idle"
          /\ Len(retire_list[t]) = 1
          /\ retire_list[t][1] \in {hp[u][0], hp[u][1]}

\* retire_node() of thread t pushes the old head to retire_list in this step.
HpRetireStep(t) == pc[t] = "d_clear1_t" /\ pc'[t] # pc[t]

\* C27 (HP bounds unreclaimed garbage): when a scan returns, the caller's
\* retirement buffer holds no more pointers than the scan has read distinct
\* hazards, which are at most HP_COUNT_PER_THREAD per record of the global
\* list; retire_node() starts a scan exactly when the buffer has reached
\* HP_RETIRE_THRESHOLD; so between its calls a thread holds fewer retirees
\* than the threshold, or no more than HP_COUNT_PER_THREAD for each other
\* record (its own slots are null when it scans).
C27_BoundedGarbage ==
    /\ [][\A t \in Threads : ScanFreeStep(t) =>
            /\ Len(retire_list'[t]) <= Cardinality(hazards[t])
            /\ Cardinality(hazards[t]) <= HP_COUNT_PER_THREAD * Len(rec_list)
            /\ Len(retire_list'[t]) <= HP_COUNT_PER_THREAD * Len(rec_list)]_vars
    /\ [][\A t \in Threads : HpRetireStep(t) =>
            /\ Len(retire_list'[t]) = Len(retire_list[t]) + 1
            /\ (pc'[t] = "hp_scan") <=> (Len(retire_list'[t]) >= HP_RETIRE_THRESHOLD)]_vars
    /\ [](reclaimer = "HP" =>
            \A t \in Threads : pc[t] \in {"idle", "x_release"} =>
                \/ Len(retire_list[t]) < HP_RETIRE_THRESHOLD
                \/ Len(retire_list[t]) <= HP_COUNT_PER_THREAD * (Len(rec_list) - 1))

\* A scan has returned with HP_COUNT_PER_THREAD retirees in the buffer: the
\* two nodes that another thread, stopped inside try_dequeue, protects.
C27_Witness ==
    /\ reclaimer = "HP"
    /\ \E t, u \in Threads :
          /\ t # u
          /\ pc[t] = "idle"
          /\ pc[u] = "d_validate2"
          /\ Len(retire_list[t]) = HP_COUNT_PER_THREAD
          /\ Range(retire_list[t]) = {hp[u][0], hp[u][1]}

\* Thread t is inside scan_and_retire() of EBR, past the try_lock.
Scanning(t) ==
    pc[t] \in {"ebr_scan_flag", "ebr_scan_epoch", "ebr_scan_advance", "ebr_scan_unlock"}

\* C28 (the EBR global epoch is monotone): global_epoch_ never decreases;
\* every change is an increment by one, stored by a thread that is inside
\* scan_and_retire(), holds list_mtx_ and took its snapshot at the value the
\* epoch still has; only the holder of list_mtx_ is past the try_lock, so no
\* two scans advance from the same snapshot.
C28_EpochMonotone ==
    /\ [][/\ global_epoch_' >= global_epoch_
          /\ global_epoch_' # global_epoch_ =>
                \E t \in Threads :
                    /\ pc[t] = "ebr_scan_advance"
                    /\ pc'[t] = "ebr_scan_unlock"
                    /\ list_mtx_ = t
                    /\ snapshot_epoch[t] = global_epoch_
                    /\ global_epoch_' = global_epoch_ + 1]_vars
    /\ [](\A t \in Threads : Scanning(t) <=> list_mtx_ = t)

\* One scan is about to advance the epoch a second time while the scan of
\* another thread is at its try_lock.
C28_Witness ==
    /\ global_epoch_ = 1
    /\ \E t, u \in Threads :
          /\ t # u
          /\ pc[t] = "ebr_scan_advance"
          /\ list_mtx_ = t
          /\ pc[u] = "ebr_scan"

\* C29 (EBR epoch lag): every registered thread that is in_critical has a
\* local_epoch that is at most one behind global_epoch_.
C29_EpochLag ==
    \A t \in Range(thread_registry_) :
        in_critical[t] => local_epoch[t] >= global_epoch_ - 1

\* C30 (EBR frees only the bucket two epochs behind): every node freed by
\* attempt_local_cleanup() was pushed by retire_node() under an epoch e with
\* e <= g - 2, g being the global_epoch_ the cleanup reads; in particular no
\* node retired in the current or the previous epoch is freed by it.
C30_FreesTwoBehind ==
    [][\A t \in Threads : CleanupStep(t) =>
          \A a \in FreedNow :
              /\ retire_epoch[a] <= global_epoch_ - 2
              /\ retire_epoch[a] \notin {global_epoch_, global_epoch_ - 1}]_vars

\* A cleanup has just freed a node that was retired two epochs earlier (no
\* close() was called, so the cleanup is the only code that has freed nodes).
C30_Witness ==
    /\ reclaimer = "EBR"
    /\ nclose = 0
    /\ \E t \in Consumers :
          /\ pc[t] = "exit"
          /\ retire_lists[t][safe_idx(global_epoch_)] = <<>>
          /\ \E a \in Addrs : mem[a] = "freed" /\ retire_epoch[a] = global_epoch_ - 2

\* The scan of thread t has read the flag of every registered thread.
ScanComplete(t) ==
    {scan_seen[t][i][1] : i \in 1..Len(scan_seen[t])} = Range(thread_registry_)

\* Every thread whose in_critical the scan of thread t read as true had, when
\* the scan read it, a local_epoch equal to the scan's snapshot.
ScanAllMatch(t) ==
    \A i \in 1..Len(scan_seen[t]) :
        scan_seen[t][i][2] => scan_seen[t][i][3] = snapshot_epoch[t]

\* scan_and_retire() of thread t returns and releases list_mtx_ in this step.
ScanReleaseStep(t) == list_mtx_ = t /\ list_mtx_' = Unlocked

\* The try_to_lock of thread t's scan_and_retire() fails in this step.
TryLockFailStep(t) ==
    pc[t] = "ebr_scan" /\ pc'[t] # pc[t] /\ list_mtx_ # Unlocked

\* C31 (EBR scan advance condition): scan_and_retire() advances global_epoch_
\* if and only if it acquires list_mtx_ and every registered thread whose
\* in_critical it reads as true has local_epoch equal to the snapshot; when
\* the try-lock fails it returns at once and changes neither global_epoch_
\* nor any thread's record.
C31_ScanAdvance ==
    /\ [][global_epoch_' # global_epoch_ =>
            \E t \in Threads :
                /\ list_mtx_ = t
                /\ ScanComplete(t) /\ ScanAllMatch(t)
                /\ global_epoch_' = snapshot_epoch[t] + 1]_vars
    /\ [][\A t \in Threads : ScanReleaseStep(t) =>
            /\ ScanAllMatch(t) <=> global_epoch_ = snapshot_epoch[t] + 1
            /\ ~ScanAllMatch(t) => global_epoch_ = snapshot_epoch[t]]_vars
    /\ [][\A t \in Threads : TryLockFailStep(t) =>
            /\ pc'[t] = ebr_scan_return(t)
            /\ UNCHANGED <<global_epoch_, local_epoch, in_critical, retire_lists,
                           thread_registry_, list_mtx_, snapshot_epoch>>]_vars

\* A scan that read an active thread at the snapshot has advanced the epoch
\* and is about to release the mutex, while the try-lock of another thread's
\* scan is about to fail.
C31_Witness ==
    \E t, u \in Threads :
        /\ t # u
        /\ pc[t] = "ebr_scan_unlock"
        /\ global_epoch_ = snapshot_epoch[t] + 1
        /\ \E i \in 1..Len(scan_seen[t]) : scan_seen[t][i][2]
        /\ pc[u] = "ebr_scan"

\* ~ThreadContext() of thread t runs the deleters of its buckets in this step.
TeardownStep(t) == pc[t] = "x_clean" /\ pc'[t] # pc[t]

\* C32 (EBR thread teardown is safe): when a thread exits, its context frees
\* a residual retired node only if no other thread that is inside a critical
\* section holds a pointer to that node.
C32_TeardownSafe ==
    [][\A t \in Threads : TeardownStep(t) =>
          \A a \in FreedNow : \A u \in Threads \ {t} :
              in_critical[u] => a \notin Held(u)]_vars

\* C32, as seen by the reader: under EBR no thread dereferences a node that
\* the context of an exiting thread has freed.
C32_NoUseAfterTeardown == (reclaimer = "EBR" /\ exits # {}) => ~uaf

\* No thread-local EBR context is destroyed while the queue is in use.
NoTeardown == reclaimer = "EBR" => exits = {}

\* The head CAS of try_dequeue(t), line 739, succeeds in this step.
HeadCasStep(t) == pc[t] = "d_cas" /\ pc'[t] # pc[t] /\ head_' # head_

ReturnStep(t) == pc[t] # "idle" /\ pc'[t] = "idle"

\* Thread t protects nothing: its hazard slots are null and it is not inside
\* a critical section.
Unprotected(t) ==
    /\ \A i \in Slots : hp[t][i] = NULL
    /\ ~in_critical[t]

\* C34 (no protection outlives an operation): whenever enqueue or try_dequeue
\* returns, true or false, both hazard slots of the caller are null (HP) and
\* its in_critical flag is false (EBR); on a successful dequeue the slots are
\* cleared before the old head is retired, so that the caller's own scan
\* never finds the caller's hazards.
C34_NoProtectionOutlives ==
    /\ [][\A t \in Threads : ReturnStep(t) => Unprotected(t)']_vars
    /\ [](\A t \in Threads : pc[t] = "idle" => Unprotected(t))
    /\ [][\A t \in Threads : HpRetireStep(t) =>
             /\ hp[t][0] = NULL
             /\ \A i \in Slots : hp'[t][i] = NULL]_vars
    /\ [](\A t \in Threads :
             pc[t] \in {"hp_scan", "hp_scan_free"} => \A i \in Slots : hp[t][i] = NULL)

\* Under HP a consumer is in the scan that follows its retire with both of
\* its slots null while another thread protects a node; or, under EBR, a
\* try_dequeue has returned true and its caller has left its critical section
\* while another thread is inside one.
C34_Witness ==
    \/ /\ reclaimer = "HP"
       /\ \E t \in Consumers, u \in Threads :
             /\ t # u
             /\ pc[t] = "hp_scan_free"
             /\ retire_list[t] # <<>>
             /\ \A i \in Slots : hp[t][i] = NULL
             /\ hp[u][0] # NULL
    \/ /\ reclaimer = "EBR"
       /\ \E t \in Consumers, u \in Threads :
             /\ t # u
             /\ pc[t] = "idle" /\ ~in_critical[t]
             /\ \E k \in DOMAIN dequeued : dequeued[k][1] = t
             /\ in_critical[u]

C36_SequentialEquivalence ==
    /\ [](serial /\ LibraryReclaimer =>
            /\ closed_load = mq_is_closed
            /\ \A p \in Producers :
                  /\ ret[p] = "true" => mq_ok[p]
                  /\ ret[p] = "false" => ~mq_ok[p]
            /\ \A c \in Consumers : pc[c] = "idle" => out[c] = mq_out[c]
            /\ (\A t \in Threads : pc[t] = "idle") => Items = mq_queue_)
    /\ [][\A c \in Consumers :
             /\ (serial /\ LibraryReclaimer /\ DequeueFalse(c)) => ~mq_ok[c]
             /\ (serial /\ LibraryReclaimer /\ HeadCasStep(c)) =>
                   mq_ok[c] /\ out[c] = mq_out[c]]_vars
    /\ [][\A p \in Producers :
             (serial /\ LibraryReclaimer /\ ret[p] = "none" /\ ret'[p] # "none") =>
                 ret'[p] = IF mq_ok[p] THEN "true" ELSE "false"]_vars

\* Under HP or EBR, after calls made one after the other, both queues are
\* closed, both have refused an enqueue, and both have returned the same
\* payload to the consumer's last try_dequeue.
C36_Witness ==
    /\ serial
    /\ reclaimer \in {"HP", "EBR"}
    /\ closed_ /\ mq_closed_
    /\ \E p \in Producers : ret[p] = "false" /\ ~mq_ok[p] /\ pc[p] = "idle"
    /\ \E c \in Consumers : pc[c] = "idle" /\ mq_ok[c] /\ out[c] = mq_out[c] /\ out[c] # NoVal
    /\ Len(dequeued) >= 1

\* ---------------------------------------------------------------- node pool
\* The steps in which a reclaimer's deleter runs on a thread whose thread
\* function has not returned: line 440 of the HP scan, lines 121-124 of the
\* EBR cleanup.
SmrDeleterStep(t) ==
    /\ pc[t] \in {"hp_scan_free", "r_cleanup"}
    /\ pc'[t] # pc[t]
    /\ FreedNow # {}

\* C37: a node freed by a reclaimer's deleter on a thread that is not tearing
\* down is pushed onto that thread's local cache (or spilled from it to the
\* global pool), where a later allocate finds it; it is not released to
\* ::operator delete.
C37_SmrFreesGoToPool ==
    [][\A t \in Threads : SmrDeleterStep(t) =>
          \A a \in FreedNow :
              a \in Range(local_pool'[t]) \cup Range(global_pool')]_vars

\* What deallocate() does do: with a constructed LocalBuffer every freed node
\* is cached; a thread that has never called allocate() has none, and its
\* nodes leave the pool.
C37_CachedIffBufferLive ==
    [][\A t \in Threads : (pc'[t] # pc[t] /\ FreedNow # {}) =>
          \A a \in FreedNow :
              (a \in Range(local_pool'[t]) \cup Range(global_pool')) <=> local_pool_ptr[t]]_vars

\* ----------------------------------------------------------- HP records
\* The threads whose ThreadContext holds record r: my_rec points at it and the
\* context has not been destroyed.
Owners(r) == {t \in Threads : my_rec[t] = r /\ pc[t] # "gone"}

\* C38 (HP record ownership is exclusive): every record of the global list
\* with is_acquired = true is held by exactly one thread, and no two threads
\* hold the same record; a record of the list with is_acquired = false has
\* all its hazard slots null; a step adds at most one record at the head of
\* the list and removes none.
C38_RecordOwnership ==
    /\ [](\A r \in Range(rec_list) : is_acquired[r] => Cardinality(Owners(r)) = 1)
    /\ [](\A t, u \in Threads :
            (t # u /\ my_rec[t] # NoRec /\ pc[t] # "gone" /\ pc[u] # "gone") =>
                my_rec[t] # my_rec[u])
    /\ [](\A r \in Range(rec_list) :
            ~is_acquired[r] => \A i \in Slots : hp[r][i] = NULL)
    /\ [][\/ rec_list' = rec_list
          \/ /\ Len(rec_list') = Len(rec_list) + 1
             /\ Tail(rec_list') = rec_list
             /\ Head(rec_list') \notin Range(rec_list)]_vars

\* Thread t holds a record another thread created and released, with a hazard
\* pointer published in it, while thread u, which found the record free in
\* its own acquire_record, is about to try the CAS on it; a second record is
\* in the list.
C38_Witness ==
    \E t, u \in Threads :
        /\ t # u
        /\ pc[t] = "idle" /\ t \in active
        /\ my_rec[t] \notin {t, NoRec}
        /\ is_acquired[my_rec[t]]
        /\ \E i \in Slots : hp[my_rec[t]][i] # NULL
        /\ pc[u] = "a_cas" /\ curr_rec[u] = my_rec[t]
        /\ Len(rec_list) >= 2

SafeMem == ~uaf

====
